---- MODULE Spec2Model ----
(***************************************************************************)
(* A model of YelixHono (yelix-cloud/js-hono-deno): the route registry     *)
(* that gathers per-route documentation descriptors, the mount operation   *)
(* that rewrites a child application's descriptors into a parent, and the  *)
(* two path functions (mergePaths, convertColonRoutesToBraces) it uses.    *)
(* Paths are sequences of one-character strings so that splitting,         *)
(* trimming and the regular-expression replacement are computed character  *)
(* by character, as the source computes them.                              *)
(***************************************************************************)
EXTENDS Integers, Sequences, FiniteSets, TLC

VARIABLES
  heap,       \* the EndpointBuilder objects created so far, by identity
  endpoints,  \* per application: __endpoints, a list of object identities
  honoCalls,  \* per application: the calls made on its Hono instance
  lastDoc,    \* what the last getOpenAPI() returned
  call,       \* the last call made on an application, with its arguments
  nOps,       \* number of calls made
  info,       \* per application: __openapi, its title, description and
              \* version and the endpoints added to it
  pa, pb, pc, \* inputs of the path functions
  op, out,    \* the function applied, and the path functions' results
  input,      \* input of the schema translator
  output      \* what the translator returned

appVars == <<heap, endpoints, honoCalls, lastDoc, call, nOps, info>>
pathVars == <<pa, pb, pc, op, out>>
schemaVars == <<input, output>>
vars == <<heap, endpoints, honoCalls, lastDoc, call, nOps, info, pa, pb, pc,
          op, out, input, output>>

(***************************************************************************)
(* Bounds of the model.                                                    *)
(***************************************************************************)
\* longest single path given to convertColonRoutesToBraces
MaxPathLen == 5
\* longest of the two fragments given to one mergePaths call
MaxPairLen == 3
\* longest of three fragments merged in both groupings
MaxFragLen == 2
\* number of operations (registrations, mounts, document reads) in one run
MaxOps == 2
\* longest list of checks on a string or number node
MaxChecks == 2
\* most fields in the shape of an object node
MaxFields == 2

(***************************************************************************)
(* Strings as character sequences.                                         *)
(***************************************************************************)
\* characters of route paths: separator, parameter colon, braces, a letter
PathChars == {"/", ":", "{", "}", "a"}
\* characters of the fragments merged pairwise: separator, a letter, a blank
PairChars == {"/", "a", " "}
\* characters of the fragments merged in threes: separator, colon, a letter
FragChars == {"/", ":", "a"}

RECURSIVE StringsUpTo(_, _)
StringsUpTo(chars, n) ==
  IF n = 0 THEN {<<>>}
  ELSE LET shorter == StringsUpTo(chars, n - 1)
       IN  shorter \cup {Append(s, c) : s \in shorter, c \in chars}

\* String.prototype.split('/'): the pieces between separators, empty ones kept
RECURSIVE SplitFrom(_, _, _)
SplitFrom(s, i, cur) ==
  IF i > Len(s) THEN <<cur>>
  ELSE IF s[i] = "/" THEN <<cur>> \o SplitFrom(s, i + 1, <<>>)
  ELSE SplitFrom(s, i + 1, Append(cur, s[i]))

SplitSlash(s) == SplitFrom(s, 1, <<>>)

\* String.prototype.trim(): blanks removed at both ends
RECURSIVE TrimLeft(_)
TrimLeft(s) ==
  IF s # <<>> /\ Head(s) = " " THEN TrimLeft(Tail(s)) ELSE s

RECURSIVE TrimRight(_)
TrimRight(s) ==
  IF s # <<>> /\ s[Len(s)] = " " THEN TrimRight(SubSeq(s, 1, Len(s) - 1)) ELSE s

Trim(s) == TrimRight(TrimLeft(s))

\* Array.prototype.join('/')
RECURSIVE JoinSlash(_)
JoinSlash(segs) ==
  IF segs = <<>> THEN <<>>
  ELSE IF Len(segs) = 1 THEN segs[1]
  ELSE segs[1] \o <<"/">> \o JoinSlash(Tail(segs))

RECURSIVE FlatSplit(_)
FlatSplit(parts) ==
  IF parts = <<>> THEN <<>> ELSE SplitSlash(Head(parts)) \o FlatSplit(Tail(parts))

\* .filter((p) => p && p.trim()).map((p) => p.trim())
RECURSIVE KeepTrimmed(_)
KeepTrimmed(segs) ==
  IF segs = <<>> THEN <<>>
  ELSE IF Head(segs) # <<>> /\ Trim(Head(segs)) # <<>>
       THEN <<Trim(Head(segs))>> \o KeepTrimmed(Tail(segs))
       ELSE KeepTrimmed(Tail(segs))

\* a mergePaths that joins its parts without splitting and filtering them
mergePathsNoFilter(parts) == <<"/">> \o JoinSlash(parts)

\* YelixHono.mergePaths(...parts)
mergePaths(parts) == <<"/">> \o JoinSlash(KeepTrimmed(FlatSplit(parts)))

\* p.replace(/\/+$/, ''): trailing separators removed
RECURSIVE StripTrailingSlashes(_)
StripTrailingSlashes(s) ==
  IF s # <<>> /\ s[Len(s)] = "/"
  THEN StripTrailingSlashes(SubSeq(s, 1, Len(s) - 1)) ELSE s

\* p.replace(/^\/+/, ''): leading separators removed
RECURSIVE StripLeadingSlashes(_)
StripLeadingSlashes(s) ==
  IF s # <<>> /\ Head(s) = "/" THEN StripLeadingSlashes(Tail(s)) ELSE s

\* .map(p => p.trim()).filter(p => p.length > 0)
TrimmedParts(parts) ==
  SelectSeq([i \in 1..Len(parts) |-> Trim(parts[i])], LAMBDA p : p # <<>>)

\* mergePaths(...parts) of src/src/Hono.ts: the first part that is left loses
\* its trailing separators, every other part its leading ones
HonoTs_mergePaths(parts) ==
  LET kept == TrimmedParts(parts)
  IN  <<"/">> \o JoinSlash([i \in 1..Len(kept) |->
                              IF i = 1 THEN StripTrailingSlashes(kept[i])
                              ELSE StripLeadingSlashes(kept[i])])

\* end (exclusive) of the run of non-'/' characters that starts at i
RECURSIVE RunEnd(_, _)
RunEnd(s, i) ==
  IF i > Len(s) \/ s[i] = "/" THEN i ELSE RunEnd(s, i + 1)

\* path.replace(/:([^/]+)/g, (_, param) => `{${param}}`), scanning from i
RECURSIVE ConvertFrom(_, _)
ConvertFrom(s, i) ==
  IF i > Len(s) THEN <<>>
  ELSE IF s[i] = ":" /\ RunEnd(s, i + 1) > i + 1
       THEN <<"{">> \o SubSeq(s, i + 1, RunEnd(s, i + 1) - 1) \o <<"}">>
            \o ConvertFrom(s, RunEnd(s, i + 1))
       ELSE <<s[i]>> \o ConvertFrom(s, i + 1)

\* YelixHono.convertColonRoutesToBraces(path)
\* a conversion that returns the path as it is
convertNothing(path) == path

convertColonRoutesToBraces(path) == ConvertFrom(path, 1)

\* a route() that merges the paths and does not convert the merged path
RoutePathNoConvert(prefix, ePath) == mergePaths(<<prefix, ePath>>)

\* the path route() gives one inherited endpoint: merge with the mount
\* prefix, then convert the merged path
RoutePath(prefix, ePath) ==
  convertColonRoutesToBraces(mergePaths(<<prefix, ePath>>))

(***************************************************************************)
(* Handler entries.  A handler is a plain function ("fn") or a             *)
(* YelixHonoMiddleware carrying metadata: a documentation descriptor       *)
(* ("openapi", metadata.endpointDocs) or a request validator ("validator", *)
(* metadata.from and metadata.schema).  An absent string is "", an absent  *)
(* path is <<>>: both are falsy in the source, as the absent value is.     *)
(***************************************************************************)
Apps == {"A", "B"}

NoDocs ==
  [hide |-> FALSE, method |-> "", path |-> <<>>, summary |-> <<>>,
   description |-> "", tags |-> <<>>, hasResponses |-> FALSE,
   responses |-> <<>>]

\* a validator schema: absent, an object of properties, or an array of
\* parameter objects (an item may be null)
NoSchema == [form |-> "undefined", props |-> <<>>, items |-> <<>>]
ObjectSchema(props) == [form |-> "object", props |-> props, items |-> <<>>]
ArraySchema(items) == [form |-> "array", props |-> <<>>, items |-> items]

Param(name, in, required, type) ==
  [isNull |-> FALSE, name |-> name, in |-> in, required |-> required,
   type |-> type]
NullItem ==
  [isNull |-> TRUE, name |-> "", in |-> "", required |-> FALSE, type |-> ""]

Fn == [kind |-> "fn", name |-> "", docs |-> NoDocs, from |-> "",
       schema |-> NoSchema]
\* openapi(endpointDocs)
Openapi(docs) == [kind |-> "openapi", name |-> "openapi", docs |-> docs,
                  from |-> "", schema |-> NoSchema]
Validator(from, schema) ==
  [kind |-> "validator", name |-> "zValidator", docs |-> NoDocs,
   from |-> from, schema |-> schema]

\* one entry of endpointDocs.responses: the entry itself may be null, its
\* description and content may be absent, a media type may lack its schema
Response(description, hasContent, content) ==
  [isNull |-> FALSE, description |-> description, hasContent |-> hasContent,
   content |-> content]
NullResponse ==
  [isNull |-> TRUE, description |-> "", hasContent |-> FALSE, content |-> <<>>]
Media(hasSchema, schema) == [hasSchema |-> hasSchema, schema |-> schema]

\* String.prototype.toUpperCase() on the method names in use
ToUpperCase(m) ==
  CASE m = "get" -> "GET" [] m = "post" -> "POST" [] m = "put" -> "PUT"
    [] m = "delete" -> "DELETE" [] m = "patch" -> "PATCH"
    [] m = "options" -> "OPTIONS" [] m = "head" -> "HEAD"
    [] OTHER -> m

Least(S) == CHOOSE i \in S : \A j \in S : i <= j

RECURSIVE SelectSeq2(_, _)
SelectSeq2(hs, kind) ==
  IF hs = <<>> THEN <<>>
  ELSE IF Head(hs).kind = kind THEN <<Head(hs)>> \o SelectSeq2(Tail(hs), kind)
  ELSE SelectSeq2(Tail(hs), kind)

\* a lookup that returns the last documentation descriptor
getLastMiddlewareByKey(hs) ==
  hs[CHOOSE i \in 1..Len(hs) :
       /\ hs[i].kind = "openapi"
       /\ \A j \in 1..Len(hs) : hs[j].kind = "openapi" => j <= i]

\* getMiddlewareByKey('openapi', ...handlers): is there one, and the first
HasOpenapi(hs) == \E i \in 1..Len(hs) : hs[i].kind = "openapi"
getMiddlewareByKey(hs) ==
  hs[Least({i \in 1..Len(hs) : hs[i].kind = "openapi"})]

\* getMiddlewaresByKey('requestValidation', ...handlers)
getMiddlewaresByKey(hs) == SelectSeq2(hs, "validator")

\* openapi?.metadata.endpointDocs, with every field absent when there is none
EndpointDocsOf(hs) == IF HasOpenapi(hs) THEN getMiddlewareByKey(hs).docs ELSE NoDocs

\* Object.assign(json, schema): the properties of schema override json's
ObjectAssign(json, props) ==
  [k \in (DOMAIN json) \cup (DOMAIN props) |->
     IF k \in DOMAIN props THEN props[k] ELSE json[k]]

\* the property names Object.assign finds on an array: its indices
IndexKeys == <<"0", "1", "2", "3", "4", "5", "6", "7", "8", "9">>

\* the own enumerable properties of a validator schema, as Object.assign
\* copies them: the properties of an object, the items of an array under
\* their indices (a null item too), nothing of an absent schema
OwnProps(schema) ==
  CASE schema.form = "object" -> schema.props
    [] schema.form = "array" ->
         [k \in {IndexKeys[i] : i \in 1..Len(schema.items)} |->
            schema.items[CHOOSE i \in 1..Len(schema.items) : IndexKeys[i] = k]]
    [] OTHER -> <<>>

\* ['query', 'header', 'cookie', 'path', 'param'].includes(from)
ParameterSources == {"query", "header", "cookie", "path", "param"}

\* a validation loop with no try around the body-schema and parameter steps:
\* an exception of either leaves the loop
RECURSIVE ValidationLoopNoTry(_, _)
ValidationLoopNoTry(rvs, acc) ==
  IF rvs = <<>> THEN acc
  ELSE
    LET rv == Head(rvs)
        next ==
          IF rv.from \in {"json", "form"}
          THEN [acc EXCEPT !.haveJson = TRUE,
                           !.threw = acc.threw \/ rv.schema.form = "undefined",
                           !.json = ObjectAssign(acc.json, OwnProps(rv.schema))]
          ELSE IF rv.from \in ParameterSources
          THEN [acc EXCEPT !.haveParameter = TRUE,
                           !.threw = \/ acc.threw
                                     \/ /\ rv.schema.form = "array"
                                        /\ \E k \in 1..Len(rv.schema.items) :
                                             rv.schema.items[k].isNull,
                           !.parameters =
                             IF /\ rv.schema.form = "array"
                                /\ \A k \in 1..Len(rv.schema.items) :
                                     ~rv.schema.items[k].isNull
                             THEN acc.parameters \o rv.schema.items
                             ELSE acc.parameters]
          ELSE acc
    IN  ValidationLoopNoTry(Tail(rvs), next)

\* the validation loop of loadEndpointDocs: the merged body schema and the
\* gathered parameters.  threw is set when an exception leaves the loop.
RECURSIVE ValidationLoop(_, _)
ValidationLoop(rvs, acc) ==
  IF rvs = <<>> THEN acc
  ELSE
    LET rv == Head(rvs)
        next ==
          IF rv.from \in {"json", "form"}
          THEN \* Object.assign ignores an absent source; Object.keys(schema)
               \* in the log call then throws inside the try
               [acc EXCEPT !.haveJson = TRUE,
                           !.json = ObjectAssign(acc.json, OwnProps(rv.schema))]
          ELSE IF rv.from \in ParameterSources
          THEN \* schema.map(p => p.name) throws on a null item, inside the
               \* try, before parameters.push
               [acc EXCEPT !.haveParameter = TRUE,
                           !.parameters =
                             IF /\ rv.schema.form = "array"
                                /\ \A k \in 1..Len(rv.schema.items) :
                                     ~rv.schema.items[k].isNull
                             THEN acc.parameters \o rv.schema.items
                             ELSE acc.parameters]
          ELSE acc
    IN  ValidationLoop(Tail(rvs), next)

LoopStart ==
  [haveJson |-> FALSE, json |-> <<>>, haveParameter |-> FALSE,
   parameters |-> <<>>, threw |-> FALSE]

\* Object.entries(response.content).reduce(...): the media types that carry
\* a schema, each kept as {schema}
TransformContent(content) ==
  LET kept == {mt \in DOMAIN content : content[mt].hasSchema}
  IN  [mt \in kept |-> content[mt].schema]

\* a transformation of the responses that gives up on the whole mapping when
\* one entry is null
TransformResponsesFailFast(responses) ==
  IF \E st \in DOMAIN responses : responses[st].isNull THEN <<>>
  ELSE [st \in DOMAIN responses |->
          [description |-> IF responses[st].description # ""
                           THEN <<responses[st].description>>
                           ELSE <<"HTTP ", st, " response">>,
           hasContent |-> responses[st].hasContent,
           content |-> IF responses[st].hasContent
                       THEN TransformContent(responses[st].content)
                       ELSE <<>>]]

\* Object.entries(responses).reduce(...): null entries are left out, a
\* missing description becomes `HTTP ${status} response`
TransformResponses(responses) ==
  LET kept == {st \in DOMAIN responses : ~responses[st].isNull}
  IN  [st \in kept |->
         [description |-> IF responses[st].description # ""
                          THEN <<responses[st].description>>
                          ELSE <<"HTTP ", st, " response">>,
          hasContent |-> responses[st].hasContent,
          content |-> IF responses[st].hasContent
                      THEN TransformContent(responses[st].content)
                      ELSE <<>>]]

\* a loadEndpointDocs without the return for endpointDocs.hide
loadEndpointDocsNoHide(_path, _method, hs) ==
  LET endpointDocs == EndpointDocsOf(hs)
      loop == ValidationLoop(getMiddlewaresByKey(hs), LoopStart)
      docPath == IF endpointDocs.path # <<>> THEN endpointDocs.path ELSE _path
      method == IF endpointDocs.method # "" THEN endpointDocs.method ELSE _method
      summary == IF endpointDocs.summary # <<>> THEN endpointDocs.summary
                 ELSE <<ToUpperCase(method), " ">> \o _path
  IN  [threw |-> loop.threw, pushed |-> ~loop.threw,
       endpoint |->
         [method |-> method,
          path |-> convertColonRoutesToBraces(docPath),
          summary |-> summary,
          description |-> endpointDocs.description,
          tags |-> endpointDocs.tags,
          hasResponses |-> endpointDocs.hasResponses,
          responses |-> IF endpointDocs.hasResponses
                        THEN TransformResponses(endpointDocs.responses)
                        ELSE <<>>,
          hasRequestBody |-> loop.haveJson,
          requestBody |-> loop.json,
          parameters |-> loop.parameters]]

\* YelixHono.loadEndpointDocs(_path, _method, ...handlers): whether it threw,
\* whether it pushed an endpoint, and the endpoint it built
loadEndpointDocs(_path, _method, hs) ==
  LET endpointDocs == EndpointDocsOf(hs)
      loop == ValidationLoop(getMiddlewaresByKey(hs), LoopStart)
      docPath == IF endpointDocs.path # <<>> THEN endpointDocs.path ELSE _path
      method == IF endpointDocs.method # "" THEN endpointDocs.method ELSE _method
      summary == IF endpointDocs.summary # <<>> THEN endpointDocs.summary
                 ELSE <<ToUpperCase(method), " ">> \o _path
  IN  IF loop.threw
      THEN [threw |-> TRUE, pushed |-> FALSE, endpoint |-> <<>>]
      ELSE IF endpointDocs.hide
      THEN [threw |-> FALSE, pushed |-> FALSE, endpoint |-> <<>>]
      ELSE [threw |-> FALSE, pushed |-> TRUE,
            endpoint |->
              [method |-> method,
               path |-> convertColonRoutesToBraces(docPath),
               summary |-> summary,
               description |-> endpointDocs.description,
               tags |-> endpointDocs.tags,
               hasResponses |-> endpointDocs.hasResponses,
               responses |-> IF endpointDocs.hasResponses
                             THEN TransformResponses(endpointDocs.responses)
                             ELSE <<>>,
               hasRequestBody |-> loop.haveJson,
               requestBody |-> loop.json,
               parameters |-> loop.parameters]]

(***************************************************************************)
(* The applications.                                                       *)
(***************************************************************************)
NoCall == [fn |-> "", app |-> "", method |-> "", path |-> <<>>,
           handlers |-> <<>>, child |-> ""]

HonoCall(fn, method, path, names, child) ==
  [fn |-> fn, method |-> method, path |-> path, handlers |-> names,
   child |-> child]

\* the constructor: this.hono.use('*', <request wrapper>), and the title,
\* description and version set on the new OpenAPI object
ConstructorCalls == <<HonoCall("use", "", <<"*">>, <<"requestWrapper">>, "")>>
ConstructorInfo ==
  [title |-> "Yelix Hono API",
   description |-> "Yelix Hono API Documentation", version |-> "1.0.0",
   endpoints |-> <<>>]
NoDocument == [app |-> "", paths |-> <<>>, info |-> <<>>]

Init ==
  /\ heap = <<>>
  /\ endpoints = [a \in Apps |-> <<>>]
  /\ honoCalls = [a \in Apps |-> ConstructorCalls]
  /\ lastDoc = NoDocument
  /\ call = NoCall
  /\ nOps = 0
  /\ info = [a \in Apps |-> ConstructorInfo]
  /\ pa = <<>> /\ pb = <<>> /\ pc = <<>> /\ op = "" /\ out = <<>>
  /\ input = <<>> /\ output = <<>>

\* parseMiddlewares(handlers, updateNameForHandler): the names the wrapped
\* handlers run under; the last one is renamed "handler" on request
parseMiddlewares(hs, updateNameForHandler) ==
  [i \in 1..Len(hs) |->
     IF updateNameForHandler /\ i = Len(hs) THEN "handler"
     ELSE IF hs[i].kind = "fn" THEN "null" ELSE hs[i].name]

\* a registration that returns before this.hono.<verb>() when the route is
\* hidden
HonoCallsAfterSkipHidden(calls, fn, method, path, hs) ==
  IF EndpointDocsOf(hs).hide THEN calls
  ELSE Append(calls, HonoCall(fn, method, path, parseMiddlewares(hs, TRUE), ""))

\* this.hono.<verb>(path, ...this.parseMiddlewares(handlers))
HonoCallsAfter(calls, fn, method, path, hs) ==
  Append(calls, HonoCall(fn, method, path, parseMiddlewares(hs, TRUE), ""))

\* the loadEndpointDocs calls of one registration, one per method
LoadResults(path, methods, hs) ==
  [i \in 1..Len(methods) |-> loadEndpointDocs(path, methods[i], hs)]

RECURSIVE PushedBeforeThrow(_, _)
PushedBeforeThrow(rs, i) ==
  IF i > Len(rs) \/ rs[i].threw THEN <<>>
  ELSE (IF rs[i].pushed THEN <<rs[i].endpoint>> ELSE <<>>)
       \o PushedBeforeThrow(rs, i + 1)

\* a registration whose endpoint list is one list shared by every application
RegisterSharedList(a, fn, honoMethod, methods, path, hs) ==
  LET rs == LoadResults(path, methods, hs)
      threw == \E i \in 1..Len(rs) : rs[i].threw
      pushed == PushedBeforeThrow(rs, 1)
  IN  /\ nOps < MaxOps
      /\ heap' = heap \o pushed
      /\ endpoints' =
           [b \in Apps |->
              endpoints[b] \o [k \in 1..Len(pushed) |-> Len(heap) + k]]
      /\ honoCalls' =
           [honoCalls EXCEPT ![a] =
              IF threw THEN @ ELSE HonoCallsAfter(@, fn, honoMethod, path, hs)]
      /\ call' = [fn |-> fn, app |-> a, method |-> honoMethod, path |-> path,
                  handlers |-> hs, child |-> ""]
      /\ nOps' = nOps + 1
      /\ UNCHANGED lastDoc /\ UNCHANGED <<info, pathVars, schemaVars>>

\* get/post/put/delete/patch/options/all/on: document the route for each of
\* methods, then register it with Hono; an exception thrown by the
\* documentation step leaves the call before Hono is reached
Register(a, fn, honoMethod, methods, path, hs) ==
  LET rs == LoadResults(path, methods, hs)
      threw == \E i \in 1..Len(rs) : rs[i].threw
      pushed == PushedBeforeThrow(rs, 1)
  IN  /\ nOps < MaxOps
      /\ heap' = heap \o pushed
      /\ endpoints' =
           [endpoints EXCEPT ![a] = @ \o [k \in 1..Len(pushed) |-> Len(heap) + k]]
      /\ honoCalls' =
           [honoCalls EXCEPT ![a] =
              IF threw THEN @ ELSE HonoCallsAfter(@, fn, honoMethod, path, hs)]
      /\ call' = [fn |-> fn, app |-> a, method |-> honoMethod, path |-> path,
                  handlers |-> hs, child |-> ""]
      /\ nOps' = nOps + 1
      /\ UNCHANGED lastDoc /\ UNCHANGED <<info, pathVars, schemaVars>>

(***************************************************************************)
(* The inputs the calls are driven with.                                   *)
(***************************************************************************)
RegPaths == {<<"/", "a">>, <<"/", ":", "a">>}
\* the first path
FewPaths == {<<"/", "a">>}
Prefixes == {<<"/", "s">>, <<"/", ":", "v">>}

QueryParams ==
  ArraySchema(<<Param("q", "query", TRUE, "string"),
                Param("n", "query", FALSE, "number")>>)
BodySchema == ObjectSchema([title |-> "string"])

DocFull ==
  [NoDocs EXCEPT !.summary = <<"List">>, !.description = "desc",
                 !.tags = <<"t">>]
DocHidden == [NoDocs EXCEPT !.hide = TRUE]
DocResponses ==
  [NoDocs EXCEPT
     !.method = "put", !.path = <<"/", "a", "/", ":", "a">>,
     !.hasResponses = TRUE,
     !.responses =
        ("200" :> Response("ok", TRUE,
                     ("application/json" :> Media(TRUE, "Item"))
                       @@ ("text/plain" :> Media(FALSE, ""))))
          @@ ("404" :> NullResponse)
          @@ ("500" :> Response("", FALSE, <<>>))]

\* a handler with no documentation and no validator
PlainHandlers == <<Fn>>
\* summary, description and tags, query parameters and a JSON body
DocumentedHandlers ==
  <<Openapi(DocFull), Validator("query", QueryParams),
    Validator("json", BodySchema), Fn>>
\* hide: true beside a body validator and a parameter validator
HiddenHandlers ==
  <<Openapi(DocHidden), Validator("json", BodySchema),
    Validator("query", QueryParams), Fn>>
\* validators without location, without schema, with a null parameter and
\* with a schema of the wrong form, beside a well-formed one
MalformedHandlers ==
  <<Validator("", BodySchema), Validator("json", NoSchema),
    Validator("query", ArraySchema(<<NullItem>>)),
    Validator("header", BodySchema),
    Validator("param", ArraySchema(<<Param("a", "path", TRUE, "string")>>)),
    Fn>>
\* method and path overrides, and responses of which one is null, one has a
\* media type without schema and one has neither description nor content;
\* a form validator whose schema is an array
ResponseHandlers ==
  <<Openapi(DocResponses),
    Validator("form", ArraySchema(<<Param("f", "query", FALSE, "string")>>)),
    Fn>>

\* two documentation descriptors on one route: a hiding one after a full
\* one, and a full one after one with overrides and responses
DocumentedThenHidden == <<Openapi(DocFull), Openapi(DocHidden), Fn>>
OverridesThenDocumented == <<Openapi(DocResponses), Openapi(DocFull), Fn>>

HandlerLists ==
  {PlainHandlers, DocumentedHandlers, HiddenHandlers, MalformedHandlers,
   ResponseHandlers}
\* get is driven with every list and with the lists of two documentation
\* descriptors on the first path, and with a plain and a documented list on
\* the path with a parameter
GetHandlerLists(path) ==
  IF path \in FewPaths
  THEN HandlerLists \cup {DocumentedThenHidden, OverridesThenDocumented}
  ELSE {PlainHandlers, DocumentedHandlers}
\* put, delete, patch, options, all and on run the code of get and post;
\* they are driven with the documented and the hidden list on the first
\* path, and post with every list on the first path
FewHandlerLists == {DocumentedHandlers, HiddenHandlers}

(***************************************************************************)
(* The calls.                                                              *)
(***************************************************************************)
Get ==
  \E a \in Apps, path \in RegPaths :
    \E hs \in GetHandlerLists(path) :
      Register(a, "get", "get", <<"get">>, path, hs)

Post ==
  \E a \in Apps, path \in FewPaths, hs \in HandlerLists :
    Register(a, "post", "post", <<"post">>, path, hs)

Delete ==
  \E a \in Apps, path \in FewPaths, hs \in FewHandlerLists :
    Register(a, "delete", "delete", <<"delete">>, path, hs)

Put ==
  \E a \in Apps, path \in FewPaths, hs \in FewHandlerLists :
    Register(a, "put", "put", <<"put">>, path, hs)

Patch ==
  \E a \in Apps, path \in FewPaths, hs \in FewHandlerLists :
    Register(a, "patch", "patch", <<"patch">>, path, hs)

Options ==
  \E a \in Apps, path \in FewPaths, hs \in FewHandlerLists :
    Register(a, "options", "options", <<"options">>, path, hs)

AllMethods == <<"post", "get", "put", "delete", "patch", "options">>

All ==
  \E a \in Apps, path \in FewPaths, hs \in FewHandlerLists :
    Register(a, "all", "", AllMethods, path, hs)

On ==
  \E a \in Apps, path \in FewPaths, hs \in FewHandlerLists :
    Register(a, "on", "head", <<"head">>, path, hs)

\* use(pathOrHandler, ...handlers): middleware only, nothing is documented
Use ==
  \E a \in Apps, withPath \in BOOLEAN :
    /\ nOps < MaxOps
    /\ honoCalls' =
         [honoCalls EXCEPT ![a] =
            Append(@, HonoCall("use", "", IF withPath THEN <<"*">> ELSE <<>>,
                               parseMiddlewares(<<Fn>>, FALSE), ""))]
    /\ call' = [fn |-> "use", app |-> a, method |-> "",
                path |-> IF withPath THEN <<"*">> ELSE <<>>,
                handlers |-> <<Fn>>, child |-> ""]
    /\ nOps' = nOps + 1
    /\ UNCHANGED <<heap, endpoints, lastDoc>> /\ UNCHANGED <<info, pathVars, schemaVars>>

\* for (const endpoint of endpoints) endpoint.setPath(convert(merge(...)))
RECURSIVE RewritePaths(_, _, _)
RewritePaths(h, ids, prefix) ==
  IF ids = <<>> THEN h
  ELSE RewritePaths([h EXCEPT ![Head(ids)].path = RoutePath(prefix, @)],
                    Tail(ids), prefix)

\* a route() that replaces the parent's list by the child's
RouteIntoReplaces(parent, prefix, child) ==
  /\ nOps < MaxOps
  /\ honoCalls' =
       [honoCalls EXCEPT ![parent] =
          Append(@, HonoCall("route", "", prefix, <<>>, child))]
  /\ IF child \in Apps
     THEN /\ heap' = RewritePaths(heap, endpoints[child], prefix)
          /\ endpoints' = [endpoints EXCEPT ![parent] = endpoints[child]]
     ELSE UNCHANGED <<heap, endpoints>>
  /\ call' = [fn |-> "route", app |-> parent, method |-> "", path |-> prefix,
              handlers |-> <<>>, child |-> child]
  /\ nOps' = nOps + 1
  /\ UNCHANGED lastDoc /\ UNCHANGED <<info, pathVars, schemaVars>>

\* route(path, instance): a YelixHono child has the path of each of its
\* endpoint objects rewritten in place, and the same objects are pushed on
\* the parent's list; any other instance ("hono") is only mounted on Hono
RouteInto(parent, prefix, child) ==
  /\ nOps < MaxOps
  /\ honoCalls' =
       [honoCalls EXCEPT ![parent] =
          Append(@, HonoCall("route", "", prefix, <<>>, child))]
  /\ IF child \in Apps
     THEN /\ heap' = RewritePaths(heap, endpoints[child], prefix)
          /\ endpoints' = [endpoints EXCEPT ![parent] = @ \o endpoints[child]]
     ELSE UNCHANGED <<heap, endpoints>>
  /\ call' = [fn |-> "route", app |-> parent, method |-> "", path |-> prefix,
              handlers |-> <<>>, child |-> child]
  /\ nOps' = nOps + 1
  /\ UNCHANGED lastDoc /\ UNCHANGED <<info, pathVars, schemaVars>>

Route ==
  \E parent \in Apps, prefix \in Prefixes, child \in Apps \cup {"hono"} :
    RouteInto(parent, prefix, child)

\* the operation object of one endpoint
Operation(ep) ==
  [summary |-> ep.summary, description |-> ep.description, tags |-> ep.tags,
   parameters |-> ep.parameters, hasRequestBody |-> ep.hasRequestBody,
   requestBody |-> ep.requestBody, hasResponses |-> ep.hasResponses,
   responses |-> ep.responses]

\* the endpoint objects on the list of application a, in list order
EndpointsOf(h, e, a) == [i \in 1..Len(e[a]) |-> h[e[a][i]]]

KeyOf(ep) == <<ep.path, ep.method>>

\* addEndpoints(...).getJSON().paths: the endpoints grouped by path, then by
\* method; a later endpoint of the same path and method replaces an earlier
AssemblePaths(eps) ==
  LET keys == {KeyOf(eps[i]) : i \in 1..Len(eps)}
      last(k) == CHOOSE i \in 1..Len(eps) :
                   /\ KeyOf(eps[i]) = k
                   /\ \A j \in 1..Len(eps) : KeyOf(eps[j]) = k => j <= i
  IN  [k \in keys |-> Operation(eps[last(k)])]

\* getOpenAPI() of application a on the objects h and the lists e
DocumentOf(h, e, a) == AssemblePaths(EndpointsOf(h, e, a))

\* the title, description and version of an OpenAPI object
InfoOf(o) ==
  [title |-> o.title, description |-> o.description, version |-> o.version]

\* getOpenAPI(): clone = Object.assign(Object.create(prototype),
\* this.__openapi) copies the properties of this.__openapi, not what they
\* refer to, so the list the OpenAPI object keeps its endpoints in is one
\* list for the clone and for this.__openapi.  clone.addEndpoints comes
\* with the package @yelix/openapi: it either extends that list where it is
\* (inPlace), and this.__openapi then holds the endpoints too, or gives the
\* clone a list of its own.  The document is assembled from the clone's
\* list.
GetOpenAPI ==
  \E a \in Apps, inPlace \in BOOLEAN :
    LET added == info[a].endpoints \o endpoints[a]
    IN  /\ nOps < MaxOps
        /\ lastDoc' = [app |-> a,
                       paths |-> DocumentOf(heap,
                                            [endpoints EXCEPT ![a] = added], a),
                       info |-> InfoOf(info[a])]
        /\ call' = [fn |-> "getOpenAPI", app |-> a, method |-> "",
                    path |-> <<>>, handlers |-> <<>>, child |-> ""]
        /\ nOps' = nOps + 1
        /\ info' = [info EXCEPT ![a].endpoints = IF inPlace THEN added ELSE @]
        /\ UNCHANGED <<heap, endpoints, honoCalls>>
        /\ UNCHANGED <<pathVars, schemaVars>>

\* the options of exposeScalarOpenAPI: title and description given or not
ScalarOptions ==
  {[title |-> "", description |-> ""], [title |-> "T", description |-> "D"]}
OpenapiJsonPath == <<"/", "openapi.json">>
DocsPath == <<"/", "docs">>
ScalarHandlers == <<Openapi(DocHidden), Fn>>

\* exposeScalarOpenAPI(params): this.get(openapiJsonPath, openapi({hide:
\* true}), handler), then the title and description are set, then
\* this.get(docsPath, openapi({hide: true}), handler)
ExposeScalarOpenAPI ==
  \E a \in Apps, params \in ScalarOptions :
    LET first == LoadResults(OpenapiJsonPath, <<"get">>, ScalarHandlers)
        second == LoadResults(DocsPath, <<"get">>, ScalarHandlers)
        pushed == PushedBeforeThrow(first, 1) \o PushedBeforeThrow(second, 1)
    IN  /\ nOps < MaxOps
        /\ heap' = heap \o pushed
        /\ endpoints' =
             [endpoints EXCEPT ![a] =
                @ \o [k \in 1..Len(pushed) |-> Len(heap) + k]]
        /\ honoCalls' =
             [honoCalls EXCEPT ![a] =
                HonoCallsAfter(
                  HonoCallsAfter(@, "get", "get", OpenapiJsonPath,
                                 ScalarHandlers),
                  "get", "get", DocsPath, ScalarHandlers)]
        /\ info' =
             [info EXCEPT ![a].title =
                            IF params.title # "" THEN params.title
                            ELSE "API Documentation",
                          ![a].description =
                            IF params.description # "" THEN params.description
                            ELSE "API Documentation"]
        /\ call' = [fn |-> "exposeScalarOpenAPI", app |-> a, method |-> "",
                    path |-> <<>>, handlers |-> <<>>, child |-> ""]
        /\ nOps' = nOps + 1
        /\ UNCHANGED lastDoc /\ UNCHANGED <<pathVars, schemaVars>>

\* a method that only forwards to the Hono instance: this.hono.<fn>(...)
Forward(a, fn, path) ==
  /\ nOps < MaxOps
  /\ honoCalls' =
       [honoCalls EXCEPT ![a] = Append(@, HonoCall(fn, "", path, <<>>, ""))]
  /\ call' = [fn |-> fn, app |-> a, method |-> "", path |-> path,
              handlers |-> <<>>, child |-> ""]
  /\ nOps' = nOps + 1
  /\ UNCHANGED <<heap, endpoints, lastDoc>>
  /\ UNCHANGED <<info, pathVars, schemaVars>>

\* mount(path, applicationHandler, options)
Mount == \E a \in Apps : Forward(a, "mount", <<"/", "m">>)

\* onError(handler)
OnError == \E a \in Apps : Forward(a, "onError", <<>>)

\* notFound(handler)
NotFound == \E a \in Apps : Forward(a, "notFound", <<>>)

\* fire()
Fire == \E a \in Apps : Forward(a, "fire", <<>>)

\* basePath(path)
BasePath == \E a \in Apps : Forward(a, "basePath", <<"/", "b">>)

\* request(input, requestInit, Env, executionCtx): this.hono.request(...);
\* what Hono and the routes' handlers then do with the request is not part
\* of the registry
Request == \E a \in Apps : Forward(a, "request", <<"/", "a">>)

\* fetch(req): this.hono.fetch(req)
Fetch == \E a \in Apps : Forward(a, "fetch", <<"/", "a">>)

Next ==
  \/ Get \/ Post \/ Delete \/ Put \/ Patch \/ Options \/ All \/ On
  \/ Use \/ Route \/ GetOpenAPI
  \/ ExposeScalarOpenAPI \/ Mount \/ OnError \/ NotFound \/ Fire \/ BasePath
  \/ Request \/ Fetch

Spec == Init /\ [][Next]_vars

(***************************************************************************)
(* Runs that begin after a first registration: an application has one      *)
(* route registered with get, post or all; it is then mounted and read,    *)
(* and the documentation routes are exposed.                               *)
(***************************************************************************)
SeedHandlerLists == {PlainHandlers, DocumentedHandlers, ResponseHandlers}
SeedCalls ==
  {[fn |-> "get", method |-> "get", methods |-> <<"get">>],
   [fn |-> "post", method |-> "post", methods |-> <<"post">>],
   [fn |-> "all", method |-> "", methods |-> AllMethods]}

\* the state Register(a, ...) leaves behind when it is the first call
RegisteredInit ==
  \E a \in Apps, path \in RegPaths, hs \in SeedHandlerLists, c \in SeedCalls :
    LET pushed == PushedBeforeThrow(LoadResults(path, c.methods, hs), 1)
    IN  /\ heap = pushed
        /\ endpoints =
             [b \in Apps |->
                IF b = a THEN [k \in 1..Len(pushed) |-> k] ELSE <<>>]
        /\ honoCalls =
             [b \in Apps |->
                IF b = a
                THEN HonoCallsAfter(ConstructorCalls, c.fn, c.method, path, hs)
                ELSE ConstructorCalls]
        /\ lastDoc = NoDocument
        /\ info = [b \in Apps |-> ConstructorInfo]
        /\ call = [fn |-> c.fn, app |-> a, method |-> c.method, path |-> path,
                   handlers |-> hs, child |-> ""]
        /\ nOps = 0
        /\ pa = <<>> /\ pb = <<>> /\ pc = <<>> /\ op = "" /\ out = <<>>
        /\ input = <<>> /\ output = <<>>

RegisteredNext == Route \/ GetOpenAPI \/ ExposeScalarOpenAPI

RegisteredSpec == RegisteredInit /\ [][RegisteredNext]_vars

(***************************************************************************)
(* The path functions applied to drawn inputs.  op tells which inputs were *)
(* drawn ("in1": one path, "in2": two fragments, "in3": three fragments)   *)
(* and, after the step, which function produced out.                       *)
(***************************************************************************)
PathInit ==
  /\ heap = <<>> /\ endpoints = <<>> /\ honoCalls = <<>>
  /\ lastDoc = <<>> /\ call = <<>> /\ nOps = 0 /\ info = <<>>
  /\ out = <<>>
  /\ input = <<>> /\ output = <<>>
  /\ \/ /\ op = "in1"
        /\ pa \in StringsUpTo(PathChars, MaxPathLen)
        /\ pb = <<>> /\ pc = <<>>
     \/ /\ op = "in2"
        /\ pa \in StringsUpTo(PairChars, MaxPairLen)
        /\ pb \in StringsUpTo(PairChars, MaxPairLen)
        /\ pc = <<>>
     \/ /\ op = "in3"
        /\ pa \in StringsUpTo(FragChars, MaxFragLen)
        /\ pb \in StringsUpTo(FragChars, MaxFragLen)
        /\ pc \in StringsUpTo(FragChars, MaxFragLen)

\* convertColonRoutesToBraces applied once and applied to its own result
ApplyConvert ==
  /\ op = "in1"
  /\ op' = "convert"
  /\ out' = <<convertColonRoutesToBraces(pa),
              convertColonRoutesToBraces(convertColonRoutesToBraces(pa))>>
  /\ UNCHANGED <<pa, pb, pc>> /\ UNCHANGED <<appVars, schemaVars>>

\* mergePaths(prefix, path) as route() calls it
ApplyMerge ==
  /\ op = "in2"
  /\ op' = "merge"
  /\ out' = <<mergePaths(<<pa, pb>>)>>
  /\ UNCHANGED <<pa, pb, pc>> /\ UNCHANGED <<appVars, schemaVars>>

\* mergePaths in both groupings of three fragments
ApplyMergeBoth ==
  /\ op = "in3"
  /\ op' = "assoc"
  /\ out' = <<mergePaths(<<mergePaths(<<pa, pb>>), pc>>),
              mergePaths(<<pa, mergePaths(<<pb, pc>>)>>)>>
  /\ UNCHANGED <<pa, pb, pc>> /\ UNCHANGED <<appVars, schemaVars>>

\* the path of a route registered at pc on an application mounted at pb on
\* an application mounted at pa, and the path of the same route on an
\* application mounted once at mergePaths(pa, pb)
ApplyMountTwice ==
  /\ op = "in3"
  /\ op' = "mount2"
  /\ out' = <<RoutePath(pa, RoutePath(pb, convertColonRoutesToBraces(pc))),
              RoutePath(mergePaths(<<pa, pb>>), convertColonRoutesToBraces(pc))>>
  /\ UNCHANGED <<pa, pb, pc>> /\ UNCHANGED <<appVars, schemaVars>>

\* mergePaths(path, ePath) as route() of src/src/Hono.ts calls it, and the
\* path that route() sets on the endpoint
ApplyHonoTsMerge ==
  /\ op = "in2"
  /\ op' = "mergeHonoTs"
  /\ out' = <<HonoTs_mergePaths(<<pa, pb>>),
              convertColonRoutesToBraces(HonoTs_mergePaths(<<pa, pb>>))>>
  /\ UNCHANGED <<pa, pb, pc>> /\ UNCHANGED <<appVars, schemaVars>>

PathNext ==
  \/ ApplyConvert \/ ApplyMerge \/ ApplyMergeBoth \/ ApplyMountTwice
  \/ ApplyHonoTsMerge

PathSpec == PathInit /\ [][PathNext]_vars

(***************************************************************************)
(* The schema translator, zodSchemaToOpenAPISchema.  A JavaScript object   *)
(* is a function from its property names to their values, so that          *)
(* `"k" in o` is "k" \in DOMAIN o and an unset property is a name outside   *)
(* the domain.  A number is a record of its sign and its magnitude         *)
(* hi * 10^8 + lo, which holds 9007199254740991 exactly; isNumber is what   *)
(* `typeof v === "number"` gives.  An example value is its literal text.   *)
(***************************************************************************)
Has(o, k) == k \in DOMAIN o
SetProp(o, k, v) == (k :> v) @@ o

Num(neg, hi, lo) == [isNumber |-> TRUE, neg |-> neg, hi |-> hi, lo |-> lo]
N(n) == IF n < 0 THEN Num(TRUE, 0, 0 - n) ELSE Num(FALSE, 0, n)
\* a value that is not of type number (a string, a bigint, undefined)
NotANumber == [isNumber |-> FALSE, neg |-> FALSE, hi |-> 0, lo |-> 0]

\* 9007199254740991 = SafeHi * 10^8 + SafeLo
SafeHi == 90071992
SafeLo == 54740991
MaxSafe == Num(FALSE, SafeHi, SafeLo)
MinSafe == Num(TRUE, SafeHi, SafeLo)

MagLess(a, b) == a.hi < b.hi \/ (a.hi = b.hi /\ a.lo < b.lo)
\* a < b on numbers
Less(a, b) ==
  IF a.neg /\ ~b.neg THEN TRUE
  ELSE IF ~a.neg /\ b.neg THEN FALSE
  ELSE IF a.neg THEN MagLess(b, a)
  ELSE MagLess(a, b)

\* a check that is null
NullCheck == ("isNull" :> TRUE)
IsObject(check) == ~Has(check, "isNull")

\* { type: "object", example: {} }
Fallback == ("type" :> "object") @@ ("example" :> "{}")
\* an exception leaves the translator
Threw == ("threw" :> TRUE)
IsThrown(r) == Has(r, "threw")

\* base.type = "integer"; base.example = 123
ToInteger(base) == SetProp(SetProp(base, "type", "integer"), "example", "123")

\* case "min" / "max" of the traditional check structure on numbers
KindBound(base, check, field, exclusiveField) ==
  IF Has(check, "value") /\ check.value.isNumber
  THEN LET b == SetProp(base, field, check.value)
       IN  IF ~(Has(check, "inclusive") /\ check.inclusive)
           THEN SetProp(b, exclusiveField, TRUE)
           ELSE b
  ELSE base

KindMultipleOf(base, check) ==
  IF Has(check, "value") /\ check.value.isNumber
  THEN SetProp(base, "multipleOf", check.value)
  ELSE base

\* a number check whose only integer marking is kind "int"
NumberCheckKindOnly(base, check) ==
  IF ~IsObject(check) THEN base
  ELSE IF Has(check, "kind") /\ check.kind = "int" THEN ToInteger(base)
  ELSE base

\* one pass of the loop over def.checks of a number node
NumberCheck(base, check) ==
  IF ~IsObject(check) THEN base
  ELSE
    LET b1 == IF Has(check, "isInt") /\ check.isInt THEN ToInteger(base)
              ELSE base
        b2 == IF Has(check, "format") /\ check.format = "safeint"
              THEN ToInteger(b1) ELSE b1
        b3 == IF /\ Has(check, "minValue") /\ check.minValue.isNumber
                 /\ Less(MinSafe, check.minValue)
              THEN SetProp(b2, "minimum", check.minValue) ELSE b2
        b4 == IF /\ Has(check, "maxValue") /\ check.maxValue.isNumber
                 /\ Less(check.maxValue, MaxSafe)
              THEN SetProp(b3, "maximum", check.maxValue) ELSE b3
        b5 == IF /\ Has(check, "def") /\ check.def.defined
                 /\ (check.def.format = "safeint" \/ check.def.check = "int")
              THEN ToInteger(b4) ELSE b4
    IN  IF ~Has(check, "kind") THEN b5
        ELSE CASE check.kind = "min" ->
                    KindBound(b5, check, "minimum", "exclusiveMinimum")
               [] check.kind = "max" ->
                    KindBound(b5, check, "maximum", "exclusiveMaximum")
               [] check.kind = "int" -> ToInteger(b5)
               [] check.kind = "multipleOf" -> KindMultipleOf(b5, check)
               [] OTHER -> b5

\* one pass of the loop over def.checks of an integer node
IntegerCheck(base, check) ==
  IF ~IsObject(check) \/ ~Has(check, "kind") THEN base
  ELSE CASE check.kind = "min" ->
              KindBound(base, check, "minimum", "exclusiveMinimum")
         [] check.kind = "max" ->
              KindBound(base, check, "maximum", "exclusiveMaximum")
         [] check.kind = "multipleOf" -> KindMultipleOf(base, check)
         [] OTHER -> base

\* format and canned example of the recognized string formats
Formats == {"email", "url", "uuid", "datetime", "date", "time"}
FormatName(f) ==
  CASE f = "email" -> "email" [] f = "url" -> "uri" [] f = "uuid" -> "uuid"
    [] f = "datetime" -> "date-time" [] f = "date" -> "date"
    [] f = "time" -> "time"
FormatExample(f) ==
  CASE f = "email" -> "user@example.com" [] f = "url" -> "https://example.com"
    [] f = "uuid" -> "123e4567-e89b-12d3-a456-426614174000"
    [] f = "datetime" -> "2023-12-25T10:30:00Z" [] f = "date" -> "2023-12-25"
    [] f = "time" -> "10:30:00"
SetFormat(base, f) ==
  SetProp(SetProp(base, "format", FormatName(f)), "example", FormatExample(f))

\* the if / else-if chain on checkDef.format and checkDef.check
NestedFormat(d) ==
  IF d.format = "email" \/ d.check = "email" THEN "email"
  ELSE IF d.format = "url" \/ d.check = "url" THEN "url"
  ELSE IF d.format = "uuid" \/ d.check = "uuid" THEN "uuid"
  ELSE IF d.format = "datetime" \/ d.check = "datetime" THEN "datetime"
  ELSE IF d.format = "date" \/ d.check = "date" THEN "date"
  ELSE IF d.format = "time" \/ d.check = "time" THEN "time"
  ELSE ""

\* one pass of the loop over def.checks of a string node
StringCheck(base, check) ==
  IF ~IsObject(check) THEN base
  ELSE
    LET b1 == IF /\ Has(check, "def") /\ check.def.defined
                 /\ NestedFormat(check.def) # ""
              THEN SetFormat(base, NestedFormat(check.def)) ELSE base
        b2 == IF Has(check, "format") /\ check.format \in Formats
              THEN SetFormat(b1, check.format) ELSE b1
        b3 == IF Has(check, "minLength") /\ check.minLength.isNumber
              THEN SetProp(b2, "minLength", check.minLength) ELSE b2
        b4 == IF Has(check, "maxLength") /\ check.maxLength.isNumber
              THEN SetProp(b3, "maxLength", check.maxLength) ELSE b3
    IN  IF ~Has(check, "kind") THEN b4
        ELSE CASE check.kind = "min" ->
                    IF Has(check, "value") /\ check.value.isNumber
                    THEN SetProp(b4, "minLength", check.value) ELSE b4
               [] check.kind = "max" ->
                    IF Has(check, "value") /\ check.value.isNumber
                    THEN SetProp(b4, "maxLength", check.value) ELSE b4
               [] check.kind \in Formats -> SetFormat(b4, check.kind)
               [] check.kind = "regex" ->
                    IF Has(check, "regex")
                    THEN SetProp(b4, "pattern", check.regex) ELSE b4
               [] OTHER -> b4

\* for (const check of def.checks), when def.checks is an array
RECURSIVE StringChecks(_, _)
StringChecks(base, checks) ==
  IF checks = <<>> THEN base
  ELSE StringChecks(StringCheck(base, Head(checks)), Tail(checks))

RECURSIVE NumberChecks(_, _)
NumberChecks(base, checks) ==
  IF checks = <<>> THEN base
  ELSE NumberChecks(NumberCheck(base, Head(checks)), Tail(checks))

RECURSIVE IntegerChecks(_, _)
IntegerChecks(base, checks) ==
  IF checks = <<>> THEN base
  ELSE IntegerChecks(IntegerCheck(base, Head(checks)), Tail(checks))

\* def.checks when it is an array, else nothing to loop over
ChecksOf(def) == IF Has(def, "checks") THEN def.checks ELSE <<>>

\* a string branch without the loop over def.checks
TranslateStringNoChecks(schema, def) ==
  LET b0 == ("type" :> "string") @@ ("example" :> "string")
      b1 == IF Has(schema, "minLength") /\ schema.minLength.isNumber
            THEN SetProp(b0, "minLength", schema.minLength) ELSE b0
  IN  IF Has(schema, "maxLength") /\ schema.maxLength.isNumber
      THEN SetProp(b1, "maxLength", schema.maxLength) ELSE b1

\* if (def.type === "string") { ... }
TranslateString(schema, def) ==
  LET b0 == ("type" :> "string") @@ ("example" :> "string")
      b1 == IF Has(schema, "minLength") /\ schema.minLength.isNumber
            THEN SetProp(b0, "minLength", schema.minLength) ELSE b0
      b2 == IF Has(schema, "maxLength") /\ schema.maxLength.isNumber
            THEN SetProp(b1, "maxLength", schema.maxLength) ELSE b1
      b3 == StringChecks(b2, ChecksOf(def))
  IN  IF Has(schema, "bagFormat") /\ schema.bagFormat = "email"
      THEN SetFormat(b3, "email")
      ELSE b3

\* if (def.type === "number") { ... }
TranslateNumber(def) ==
  NumberChecks(("type" :> "number") @@ ("example" :> "123.45"), ChecksOf(def))

\* if (def.type === "integer") { ... }
TranslateInteger(def) ==
  IntegerChecks(("type" :> "integer") @@ ("example" :> "123"), ChecksOf(def))

\* the schema argument when it is undefined (a child that is missing)
Undefined == ("isUndefined" :> TRUE)
\* a schema object with no _zod.def, no _def and no def
NoDef == ("via" :> "none")
\* a schema object whose definition is found at _zod.def, _def or def
Node(via, def) == ("via" :> via) @@ ("def" :> def)

\* def[k], undefined when the definition has no such property
Child(def, k) == IF Has(def, k) THEN def[k] ELSE Undefined
IsTruthy(node) == ~Has(node, "isUndefined")

\* propDef?.type of a shape field: its tag, "" when it has none
TagOf(node) ==
  IF Has(node, "isUndefined") \/ node.via = "none" THEN ""
  ELSE IF Has(node.def, "type") THEN node.def.type ELSE ""

\* a property of def that holds a function is written with "()" after its
\* name, and holds what the call returns
\* typeof shapeGetter === "function" ? shapeGetter() : shapeGetter, and then
\* shape || {}
ShapeOf(def) ==
  IF Has(def, "shape()") THEN def["shape()"]
  ELSE IF Has(def, "shape") THEN def.shape
  ELSE <<>>

\* typeof def.defaultValue === "function" ? def.defaultValue()
\* : def.defaultValue
DefaultValueOf(def) ==
  IF Has(def, "defaultValue()") THEN def["defaultValue()"]
  ELSE IF Has(def, "defaultValue") THEN def.defaultValue
  ELSE "undefined"

\* schema.example as text, "undefined" when unset
ExampleOf(schema) == IF Has(schema, "example") THEN schema.example ELSE "undefined"

AnyThrown(rs) == \E i \in 1..Len(rs) : IsThrown(rs[i])

\* a required list that leaves out optional fields only
RequiredOfOptionalOnly(shape) ==
  LET kept == SelectSeq(shape, LAMBDA f : TagOf(f[2]) # "optional")
  IN  [i \in 1..Len(kept) |-> kept[i][1]]

\* the keys the object branch pushes onto required, in shape order
RequiredOf(shape) ==
  LET kept == SelectSeq(shape,
                        LAMBDA f : TagOf(f[2]) \notin {"optional", "default"})
  IN  [i \in 1..Len(kept) |-> kept[i][1]]

\* exampleObj as text: the fields whose schema has an example that is not
\* undefined (prop.example !== undefined)
RECURSIVE ExampleFields(_)
ExampleFields(properties) ==
  IF properties = <<>> THEN <<>>
  ELSE (IF ExampleOf(Head(properties)[2]) # "undefined"
        THEN <<Head(properties)[1] \o ":" \o Head(properties)[2].example>>
        ELSE <<>>)
       \o ExampleFields(Tail(properties))

RECURSIVE JoinComma(_)
JoinComma(texts) ==
  IF texts = <<>> THEN ""
  ELSE IF Len(texts) = 1 THEN texts[1]
  ELSE texts[1] \o "," \o JoinComma(Tail(texts))

\* minItems / maxItems of the array branch; reading .value of null throws
ArrayLengths(base, def) ==
  IF Has(def, "exactLength")
  THEN IF def.exactLength.isNull THEN Threw
       ELSE SetProp(SetProp(base, "minItems", def.exactLength.value),
                    "maxItems", def.exactLength.value)
  ELSE IF (Has(def, "minLength") /\ def.minLength.isNull)
          \/ (Has(def, "maxLength") /\ def.maxLength.isNull)
  THEN Threw
  ELSE LET b1 == IF Has(def, "minLength")
                 THEN SetProp(base, "minItems", def.minLength.value) ELSE base
       IN  IF Has(def, "maxLength")
           THEN SetProp(b1, "maxItems", def.maxLength.value) ELSE b1

\* the literal branch: the first value, by its JavaScript type
TranslateLiteral(def) ==
  LET has == Has(def, "values") /\ def.values # <<>>
      v == IF has THEN def.values[1] ELSE [type |-> "undefined", text |-> "undefined"]
  IN  IF v.type \in {"string", "number", "boolean"}
      THEN ("type" :> v.type) @@ ("enum" :> <<v.text>>) @@ ("example" :> v.text)
      ELSE ("const" :> v.text) @@ ("example" :> v.text)

\* the enum branch: def.values || def.options || Object.values(def.entries || {})
TranslateEnum(def) ==
  LET values == IF Has(def, "values") THEN def.values
                ELSE IF Has(def, "options") THEN def.options
                ELSE IF Has(def, "entries") THEN def.entries
                ELSE <<>>
  IN  ("type" :> "string") @@ ("enum" :> values)
        @@ ("example" :> IF values # <<>> /\ values[1] # "" THEN values[1]
                         ELSE "option")

RECURSIVE zodSchemaToOpenAPISchema(_)
RECURSIVE TranslateAll(_)
RECURSIVE TranslateShape(_)

\* options.map((option) => zodSchemaToOpenAPISchema(option))
TranslateAll(nodes) ==
  IF nodes = <<>> THEN <<>>
  ELSE <<zodSchemaToOpenAPISchema(Head(nodes))>> \o TranslateAll(Tail(nodes))

\* properties[key] = zodSchemaToOpenAPISchema(value), in shape order
TranslateShape(shape) ==
  IF shape = <<>> THEN <<>>
  ELSE <<<<Head(shape)[1], zodSchemaToOpenAPISchema(Head(shape)[2])>>>>
       \o TranslateShape(Tail(shape))

\* if (def.type === "object") { ... }
TranslateObject(def) ==
  LET shape == ShapeOf(def)
      properties == TranslateShape(shape)
      required == RequiredOf(shape)
      r0 == ("type" :> "object") @@ ("properties" :> properties)
      r1 == IF Len(required) > 0 THEN SetProp(r0, "required", required) ELSE r0
      fields == ExampleFields(properties)
  IN  IF \E i \in 1..Len(properties) : IsThrown(properties[i][2]) THEN Threw
      ELSE IF Len(fields) > 0
      THEN SetProp(r1, "example", "{" \o JoinComma(fields) \o "}")
      ELSE r1

\* if (def.type === "tuple") { ... }
TranslateTuple(def) ==
  LET items == TranslateAll(IF Has(def, "items") THEN def.items ELSE <<>>)
      examples == [i \in 1..Len(items) |-> ExampleOf(items[i])]
      r0 == ("type" :> "array")
              @@ ("items" :> IF Len(items) = 1 THEN items[1]
                             ELSE ("anyOf" :> items))
              @@ ("minItems" :> N(Len(items)))
              @@ ("example" :> "[" \o JoinComma(examples) \o "]")
      rest == IF IsTruthy(Child(def, "rest"))
              THEN zodSchemaToOpenAPISchema(def.rest) ELSE Threw
  IN  IF AnyThrown(items) THEN Threw
      ELSE IF IsTruthy(Child(def, "rest"))
      THEN IF IsThrown(rest) THEN Threw
           ELSE SetProp(r0, "additionalItems", rest)
      ELSE SetProp(r0, "maxItems", N(Len(items)))

zodSchemaToOpenAPISchema(schema) ==
  IF Has(schema, "isUndefined") THEN Threw
  ELSE IF schema.via = "none" THEN Fallback
  ELSE
    LET def == schema.def
        type == IF Has(def, "type") THEN def.type ELSE ""
        inner == zodSchemaToOpenAPISchema(Child(def, "innerType"))
        value == zodSchemaToOpenAPISchema(Child(def, "valueType"))
    IN  CASE type = "string" -> TranslateString(schema, def)
          [] type = "number" -> TranslateNumber(def)
          [] type = "integer" -> TranslateInteger(def)
          [] type = "boolean" -> ("type" :> "boolean") @@ ("example" :> "true")
          [] type = "literal" -> TranslateLiteral(def)
          [] type = "enum" -> TranslateEnum(def)
          [] type = "array" ->
               \* def.element || def.type || def.items: def.type is the
               \* string "array", which has no definition
               LET items == IF IsTruthy(Child(def, "element"))
                            THEN zodSchemaToOpenAPISchema(def.element)
                            ELSE Fallback
               IN  IF IsThrown(items) THEN Threw
                   ELSE ArrayLengths(
                          ("type" :> "array") @@ ("items" :> items)
                            @@ ("example" :> "[" \o ExampleOf(items) \o "]"),
                          def)
          [] type = "object" -> TranslateObject(def)
          [] type \in {"optional", "nullable"} ->
               IF IsThrown(inner) THEN Threw
               ELSE SetProp(inner, "nullable", TRUE)
          [] type = "default" ->
               IF IsThrown(inner) THEN Threw
               ELSE SetProp(inner, "default", DefaultValueOf(def))
          [] type = "union" ->
               LET options == TranslateAll(IF Has(def, "options")
                                           THEN def.options ELSE <<>>)
               IN  IF AnyThrown(options) THEN Threw
                   ELSE ("anyOf" :> options)
          [] type = "intersection" ->
               LET left == zodSchemaToOpenAPISchema(Child(def, "left"))
                   right == zodSchemaToOpenAPISchema(Child(def, "right"))
               IN  IF IsThrown(left) \/ IsThrown(right) THEN Threw
                   ELSE ("allOf" :> <<left, right>>)
          [] type = "record" ->
               LET valueSchema ==
                     IF IsTruthy(Child(def, "valueType")) THEN value
                     ELSE ("type" :> "string") @@ ("example" :> "value")
               IN  IF IsThrown(valueSchema) THEN Threw
                   ELSE ("type" :> "object")
                          @@ ("additionalProperties" :> valueSchema)
                          @@ ("example" :> "{key:" \o ExampleOf(valueSchema) \o "}")
          [] type = "tuple" -> TranslateTuple(def)
          [] type = "pipe" -> zodSchemaToOpenAPISchema(Child(def, "out"))
          [] type = "transform" -> zodSchemaToOpenAPISchema(Child(def, "schema"))
          [] type = "any" -> ("example" :> "any value")
          [] type = "unknown" -> ("example" :> "unknown value")
          [] type = "void" -> ("type" :> "null")
          [] type \in {"null", "undefined"} ->
               ("type" :> "null") @@ ("example" :> "null")
          [] type = "date" ->
               ("type" :> "string") @@ ("format" :> "date-time")
                 @@ ("example" :> "2023-12-25T10:30:00Z")
          [] type = "bigint" ->
               ("type" :> "integer") @@ ("format" :> "int64")
                 @@ ("example" :> "9223372036854775807")
          [] type = "set" ->
               IF IsThrown(value) THEN Threw
               ELSE ("type" :> "array") @@ ("items" :> value)
                      @@ ("uniqueItems" :> TRUE)
                      @@ ("example" :> "[" \o ExampleOf(value) \o "]")
          [] type = "map" ->
               IF IsThrown(value) THEN Threw
               ELSE ("type" :> "object") @@ ("additionalProperties" :> value)
                      @@ ("example" :> "{key:" \o ExampleOf(value) \o "}")
          [] OTHER -> Fallback

\* zodToResponseSchema(schema): { "application/json": { schema } }
zodToResponseSchema(schema) ==
  IF IsThrown(zodSchemaToOpenAPISchema(schema)) THEN Threw
  ELSE ("application/json" :> ("schema" :> zodSchemaToOpenAPISchema(schema)))

(***************************************************************************)
(* The nodes the translator is applied to.                                 *)
(***************************************************************************)
\* sequences over S of length at most n
SeqsUpTo(S, n) == UNION {[1..k -> S] : k \in 0..n}

\* the def property of a check: set, or present and undefined
CheckDef(format, check) == [defined |-> TRUE, format |-> format, check |-> check]
UndefinedDef == [defined |-> FALSE, format |-> "", check |-> ""]

BelowMinSafe == Num(TRUE, SafeHi, SafeLo + 1)
AboveMaxSafe == Num(FALSE, SafeHi, SafeLo + 1)

\* what z.number().int() leaves in def.checks with Zod 4
SafeintCheck ==
  ("isInt" :> TRUE) @@ ("format" :> "safeint") @@ ("minValue" :> MinSafe)
    @@ ("maxValue" :> MaxSafe) @@ ("def" :> CheckDef("safeint", "number_format"))

IntegerMarkingChecks ==
  {("isInt" :> TRUE), ("format" :> "safeint"),
   ("def" :> CheckDef("safeint", "number_format")), ("def" :> CheckDef("", "int")),
   ("kind" :> "int"), SafeintCheck}

KindChecks ==
  {("kind" :> "min") @@ ("value" :> N(5)),
   ("kind" :> "min") @@ ("value" :> N(5)) @@ ("inclusive" :> TRUE),
   ("kind" :> "min") @@ ("value" :> N(7)) @@ ("inclusive" :> FALSE),
   ("kind" :> "min") @@ ("value" :> MinSafe) @@ ("inclusive" :> TRUE),
   ("kind" :> "min") @@ ("value" :> NotANumber),
   ("kind" :> "max") @@ ("value" :> N(9)),
   ("kind" :> "max") @@ ("value" :> N(9)) @@ ("inclusive" :> TRUE),
   ("kind" :> "max") @@ ("value" :> N(8)) @@ ("inclusive" :> FALSE),
   ("kind" :> "max") @@ ("value" :> MaxSafe) @@ ("inclusive" :> TRUE),
   ("kind" :> "max") @@ ("value" :> NotANumber),
   ("kind" :> "multipleOf") @@ ("value" :> N(2)),
   ("kind" :> "finite")}

NumberCheckPool ==
  IntegerMarkingChecks \cup KindChecks
    \cup {NullCheck, ("isInt" :> FALSE), ("format" :> "float64"),
          ("def" :> CheckDef("", "greater_than")), ("def" :> UndefinedDef),
          ("minValue" :> N(1)), ("minValue" :> MinSafe),
          ("minValue" :> BelowMinSafe), ("minValue" :> NotANumber),
          ("maxValue" :> N(3)), ("maxValue" :> MaxSafe),
          ("maxValue" :> AboveMaxSafe), ("maxValue" :> NotANumber)}

StringCheckPool ==
  {NullCheck,
   ("kind" :> "email"), ("kind" :> "uuid"), ("kind" :> "cuid"),
   ("kind" :> "min") @@ ("value" :> N(3)),
   ("kind" :> "min") @@ ("value" :> N(0)),
   ("kind" :> "max") @@ ("value" :> N(50)),
   ("kind" :> "min") @@ ("value" :> NotANumber),
   ("kind" :> "regex") @@ ("regex" :> "^a+$"),
   ("format" :> "url"), ("format" :> "date"), ("format" :> "cuid"),
   ("def" :> CheckDef("email", "string_format")),
   ("def" :> CheckDef("url", "email")), ("def" :> UndefinedDef),
   ("minLength" :> N(1)), ("maxLength" :> N(9)),
   ("minLength" :> NotANumber)}

\* string schemas: where the definition is found, the direct minLength and
\* maxLength properties, and _zod.bag.format (read from _zod also when the
\* definition was found under _def or def); the nodes with direct
\* properties carry one check fewer
StringNodes ==
  {Node("_zod", ("type" :> "string") @@ ("checks" :> cs)) @@ extra :
     cs \in SeqsUpTo(StringCheckPool, MaxChecks),
     extra \in {<<>>, ("bagFormat" :> "email")}}
    \cup {Node("_zod", ("type" :> "string") @@ ("checks" :> cs))
            @@ ("bagFormat" :> "uuid") @@ ("minLength" :> N(2)) :
          cs \in SeqsUpTo(StringCheckPool, MaxChecks - 1)}
    \cup {Node("_def", ("type" :> "string") @@ ("checks" :> cs)) @@ extra :
          cs \in SeqsUpTo(StringCheckPool, MaxChecks - 1),
          extra \in {("maxLength" :> N(40)) @@ ("minLength" :> NotANumber),
                     ("bagFormat" :> "email")}}
    \cup {Node("def", ("type" :> "string")),
          Node("def", ("type" :> "string")
                        @@ ("checks" :> <<("kind" :> "uuid")>>))
            @@ ("bagFormat" :> "email")}

NumberNodes ==
  {Node("_zod", ("type" :> "number") @@ ("checks" :> cs)) :
     cs \in SeqsUpTo(NumberCheckPool, MaxChecks)}
    \cup {Node("_def", ("type" :> "number"))}

IntegerNodes ==
  {Node("_zod", ("type" :> "integer") @@ ("checks" :> cs)) :
     cs \in SeqsUpTo(KindChecks \cup {NullCheck, ("isInt" :> TRUE)}, MaxChecks)}

\* nodes without children
Leaves ==
  {Node("_zod", ("type" :> "string")),
   Node("_zod", ("type" :> "number") @@ ("checks" :> <<SafeintCheck>>)),
   Node("_def", ("type" :> "boolean")),
   Node("def", ("type" :> "promise")),
   Node("_def", ("typeName" :> "ZodString")),
   NoDef}

\* the tags with one child, and the property of def that holds it
UnaryTags ==
  {<<"optional", "innerType">>, <<"nullable", "innerType">>,
   <<"default", "innerType">>, <<"array", "element">>, <<"set", "valueType">>,
   <<"map", "valueType">>, <<"record", "valueType">>, <<"pipe", "out">>,
   <<"transform", "schema">>}

Unary(tag, property, child) ==
  Node("_zod", ("type" :> tag) @@ (property :> child))

\* a node of each tag over the children cs, and with its child missing
Wrapped(cs) ==
  {Unary(t[1], t[2], c) : t \in UnaryTags, c \in cs \cup {Undefined}}
    \cup {Node("_zod", ("type" :> t[1])) : t \in UnaryTags}

FieldTags == {"optional", "nullable", "default"}
KeyNames == <<"a", "b", "c", "d">>

\* shapes of at most n fields named in the order of KeyNames, over values vs
Shapes(vs, n) ==
  {[i \in 1..Len(q) |-> <<KeyNames[i], q[i]>>] : q \in SeqsUpTo(vs, n)}

ObjectNode(shape) == Node("_zod", ("type" :> "object") @@ ("shape" :> shape))

\* what a field of an object can be: a leaf, a leaf under optional,
\* nullable or default, or nothing
FieldValues ==
  Leaves \cup {Undefined}
    \cup {Unary(t, "innerType", c) : t \in FieldTags, c \in Leaves}

FlatObjects == {ObjectNode(s) : s \in Shapes(FieldValues, MaxFields)}

\* objects inside objects, arrays and optional
InnerObjects ==
  {ObjectNode(s) :
     s \in Shapes({Node("_zod", ("type" :> "string"))}
                    \cup {Unary(t, "innerType", Node("_zod", ("type" :> "string"))) :
                            t \in FieldTags}, 1)}
NestedValues ==
  InnerObjects
    \cup {Unary("optional", "innerType", o) : o \in InnerObjects}
    \cup {Unary("array", "element", o) : o \in InnerObjects}
NestedObjects == {ObjectNode(s) : s \in Shapes(NestedValues, MaxFields) \ {<<>>}}

\* z.literal with no first value: def.values is missing or empty
LiteralWithoutValue == Node("_zod", ("type" :> "literal") @@ ("values" :> <<>>))

CompoundNodes ==
  Leaves \cup Wrapped(Leaves)
    \cup {Unary("optional", "innerType", w) : w \in Wrapped(Leaves)}
    \cup {Node("_zod", ("type" :> "object"))}
    \cup {Node("_zod", ("type" :> "intersection") @@ sides) :
            sides \in {<<>>, ("left" :> NoDef), ("right" :> NoDef),
                       ("left" :> NoDef) @@ ("right" :> Undefined),
                       ("left" :> NoDef) @@ ("right" :> NoDef)}}
    \cup {Node("_zod", ("type" :> t) @@ (p :> cs)) :
            t \in {"union"}, p \in {"options"},
            cs \in SeqsUpTo({NoDef, Undefined}, 2)}
    \cup {Node("_zod", ("type" :> "tuple") @@ ("items" :> cs) @@ rest) :
            cs \in SeqsUpTo({NoDef, Undefined}, 2),
            rest \in {<<>>, ("rest" :> NoDef)}}
    \cup {Node("_zod", ("type" :> t)) :
            t \in {"union", "tuple", "any", "unknown", "void", "null",
                   "undefined", "date", "bigint", "boolean"}}
    \cup {Node("_zod", ("type" :> "literal") @@ ("values" :> vs)) :
            vs \in {<<>>, <<[type |-> "string", text |-> "x"]>>,
                    <<[type |-> "number", text |-> "1"]>>,
                    <<[type |-> "object", text |-> "null"]>>}}
    \cup {Node("_zod", ("type" :> "object") @@ shape) :
            shape \in {("shape" :> <<<<"a", LiteralWithoutValue>>>>),
                       ("shape" :> <<<<"a", LiteralWithoutValue>>,
                                     <<"b", Node("_zod", ("type" :> "string"))>>>>),
                       ("shape()" :> <<>>),
                       ("shape()" :> <<<<"a", Node("_zod", ("type" :> "string"))>>,
                                       <<"b", Unary("optional", "innerType",
                                                    LiteralWithoutValue)>>>>)}}
    \cup {Node("_zod", ("type" :> "default")
                         @@ ("innerType" :> Node("_zod", ("type" :> "string")))
                         @@ value) :
            value \in {("defaultValue" :> "x"), ("defaultValue()" :> "x")}}
    \cup {Node("_zod", ("type" :> "enum") @@ vs) :
            vs \in {<<>>, ("values" :> <<"x", "y">>), ("options" :> <<"o">>),
                    ("entries" :> <<"e">>)}}
    \cup {Node("_zod", ("type" :> "array") @@ ("element" :> NoDef) @@ ls) :
            ls \in {("exactLength" :> [isNull |-> FALSE, value |-> N(2)]),
                    ("minLength" :> [isNull |-> FALSE, value |-> N(1)])
                      @@ ("maxLength" :> [isNull |-> FALSE, value |-> N(3)]),
                    ("minLength" :> [isNull |-> TRUE, value |-> N(0)])}}

\* the sets of nodes the translator is applied to
SchemaNodes ==
  {StringNodes, NumberNodes, IntegerNodes, CompoundNodes, FlatObjects,
   NestedObjects}

SchemaInit ==
  /\ heap = <<>>
  /\ endpoints = [a \in Apps |-> <<>>]
  /\ honoCalls = [a \in Apps |-> ConstructorCalls]
  /\ lastDoc = NoDocument
  /\ call = NoCall
  /\ nOps = 0
  /\ info = [a \in Apps |-> ConstructorInfo]
  /\ pa = <<>> /\ pb = <<>> /\ pc = <<>> /\ out = <<>>
  /\ output = <<>>
  /\ op = "node" /\ \E nodes \in SchemaNodes : input \in nodes

\* zodSchemaToOpenAPISchema(input)
Translate ==
  /\ op = "node"
  /\ op' = "translated"
  /\ output' = zodSchemaToOpenAPISchema(input)
  /\ UNCHANGED <<input, pa, pb, pc, out>> /\ UNCHANGED appVars

SchemaNext == Translate

SchemaSpec == SchemaInit /\ [][SchemaNext]_vars

(***************************************************************************)
(* Properties of registration and mounting, checked under Spec.  A step is *)
(* told by the call it made: call' holds the call and its arguments.       *)
(***************************************************************************)
RegistrationFns ==
  {"get", "post", "put", "delete", "patch", "options", "all", "on"}

\* this step is a registration call
RegistrationStep == nOps' = nOps + 1 /\ call'.fn \in RegistrationFns

\* this step is route(prefix, child) with a YelixHono child
MountStep == nOps' = nOps + 1 /\ call'.fn = "route" /\ call'.child \in Apps

\* the handlers with hide taken off every documentation descriptor
Unhidden(hs) ==
  [i \in 1..Len(hs) |-> [hs[i] EXCEPT !.docs.hide = FALSE]]

IsPrefixOf(s, t) == Len(s) <= Len(t) /\ SubSeq(t, 1, Len(s)) = s

Occurrences(id, ids) == Cardinality({k \in 1..Len(ids) : ids[k] = id})

\* convert(merge(prefix, path)) applied n times
RECURSIVE MountedPath(_, _, _)
MountedPath(prefix, path, n) ==
  IF n = 0 THEN path
  ELSE MountedPath(prefix,
         convertColonRoutesToBraces(mergePaths(<<prefix, path>>)), n - 1)

\* C1: a registration whose documentation descriptor has hide = true adds no
\* endpoint and leaves the assembled document of every application as it
\* was, whatever validators the route carries.
C1_HiddenRouteNotDocumented ==
  [][(RegistrationStep /\ EndpointDocsOf(call'.handlers).hide)
       => /\ heap' = heap
          /\ endpoints' = endpoints
          /\ \A a \in Apps : DocumentOf(heap', endpoints', a)
                               = DocumentOf(heap, endpoints, a)]_vars

\* C1's case: a hidden route with a body and a parameter validator was
\* registered on an application that documents nothing
C1_Witness ==
  /\ call.fn = "get" /\ call.handlers = HiddenHandlers
  /\ Len(honoCalls[call.app]) = 2 /\ honoCalls[call.app][2].fn = "get"
  /\ DOMAIN DocumentOf(heap, endpoints, call.app) = {}

\* C2: a hidden registration makes the Hono call the same registration
\* without hide makes: one call of the same verb, path and handlers, and no
\* other application's Hono instance is touched.
C2_HiddenRouteStillRouted ==
  [][(RegistrationStep /\ EndpointDocsOf(call'.handlers).hide)
       => /\ honoCalls'[call'.app] =
               Append(honoCalls[call'.app],
                      HonoCall(call'.fn, call'.method, call'.path,
                               parseMiddlewares(Unhidden(call'.handlers), TRUE),
                               ""))
          /\ \A b \in Apps \ {call'.app} : honoCalls'[b] = honoCalls[b]]_vars

\* C2's case: a hidden post route reached Hono with its four handlers
C2_Witness ==
  /\ call.fn = "post" /\ call.handlers = HiddenHandlers
  /\ Len(honoCalls[call.app]) = 2
  /\ honoCalls[call.app][1] = ConstructorCalls[1]
  /\ honoCalls[call.app][2].fn = "post"
  /\ honoCalls[call.app][2].path = call.path
  /\ honoCalls[call.app][2].handlers
       = <<"openapi", "zValidator", "zValidator", "handler">>
  /\ endpoints[call.app] = <<>>

\* C3: every registration call, whatever its handlers, reaches Hono with its
\* verb and path; the documentation step can only add endpoints at the end of
\* the application's list and changes no endpoint that exists.
C3_DocumentationNeverBlocksRouting ==
  [][RegistrationStep
       => /\ Len(honoCalls'[call'.app]) = Len(honoCalls[call'.app]) + 1
          /\ IsPrefixOf(honoCalls[call'.app], honoCalls'[call'.app])
          /\ honoCalls'[call'.app][Len(honoCalls'[call'.app])].fn = call'.fn
          /\ honoCalls'[call'.app][Len(honoCalls'[call'.app])].path = call'.path
          /\ IsPrefixOf(heap, heap')
          /\ IsPrefixOf(endpoints[call'.app], endpoints'[call'.app])]_vars

\* C3's case: a route with malformed validators is routed, and documented
\* with the one well-formed parameter and an empty body schema
C3_Witness ==
  /\ call.fn = "get" /\ call.handlers = MalformedHandlers
  /\ Len(honoCalls[call.app]) = 2 /\ honoCalls[call.app][2].fn = "get"
  /\ Len(endpoints[call.app]) = 1
  /\ heap[endpoints[call.app][1]].parameters
       = <<Param("a", "path", TRUE, "string")>>
  /\ heap[endpoints[call.app][1]].hasRequestBody
  /\ heap[endpoints[call.app][1]].requestBody = <<>>

\* C4 as stated: after parent.route(prefix, child) every endpoint of the
\* child is in the parent's document at mergePaths(prefix, its path) under
\* its method.
C4_MountedAtMergedPath ==
  [][(MountStep /\ call'.child # call'.app)
       => \A k \in 1..Len(endpoints[call'.child]) :
            LET d == heap[endpoints[call'.child][k]]
            IN  <<mergePaths(<<call'.path, d.path>>), d.method>>
                  \in DOMAIN DocumentOf(heap', endpoints', call'.app)]_vars

\* C4 amended: after route(prefix, child) the k-th endpoint of the child is
\* the endpoint at the k-th new place of the parent's list; its path is
\* convert(merge(prefix, path)), applied once for each place the endpoint has
\* in the child's list, and nothing else of it has changed; the parent's
\* document has its path and method, with its operation unless another
\* endpoint of the parent has the same path and method.
C4_MountedAtConvertedMergedPath ==
  [][MountStep
       => \A k \in 1..Len(endpoints[call'.child]) :
            LET id == endpoints[call'.child][k]
                d == heap[id]
                parent == call'.app
                at == Len(endpoints[parent]) + k
                doc == DocumentOf(heap', endpoints', parent)
            IN  /\ Len(endpoints'[parent])
                     = Len(endpoints[parent]) + Len(endpoints[call'.child])
                /\ endpoints'[parent][at] = id
                /\ heap'[id] =
                     [d EXCEPT !.path =
                        MountedPath(call'.path, d.path,
                                    Occurrences(id, endpoints[call'.child]))]
                /\ KeyOf(heap'[id]) \in DOMAIN doc
                /\ (\A j \in 1..Len(endpoints'[parent]) :
                      endpoints'[parent][j] # id
                        => KeyOf(heap'[endpoints'[parent][j]]) # KeyOf(heap'[id]))
                     => doc[KeyOf(heap'[id])] = Operation(d)]_vars

\* C4's case: a documented get /a of B, mounted on A at /:v, is in A's
\* document at /{v}/a with B's summary and parameters
C4_Witness ==
  /\ call.fn = "route" /\ call.app = "A" /\ call.child = "B"
  /\ call.path = <<"/", ":", "v">>
  /\ <<<<"/", "{", "v", "}", "/", "a">>, "get">>
       \in DOMAIN DocumentOf(heap, endpoints, "A")
  /\ DocumentOf(heap, endpoints, "A")[<<<<"/", "{", "v", "}", "/", "a">>, "get">>].summary
       = <<"List">>
  /\ Len(DocumentOf(heap, endpoints, "A")[<<<<"/", "{", "v", "}", "/", "a">>, "get">>].parameters)
       = 2

\* C5: route(prefix, child) leaves the child's own endpoints and the child's
\* own document as they were, and the endpoints the parent gains are other
\* objects than the child's.
C5_MountCopiesDescriptors ==
  [][(MountStep /\ call'.child # call'.app)
       => /\ EndpointsOf(heap', endpoints', call'.child)
               = EndpointsOf(heap, endpoints, call'.child)
          /\ DocumentOf(heap', endpoints', call'.child)
               = DocumentOf(heap, endpoints, call'.child)
          /\ \A k \in (Len(endpoints[call'.app]) + 1)..Len(endpoints'[call'.app]) :
               \A j \in 1..Len(endpoints'[call'.child]) :
                 endpoints'[call'.app][k] # endpoints'[call'.child][j]]_vars

\* the applications that have mounted child, each with the prefix used
MountsOf(child) ==
  {m \in Apps \X Prefixes :
     \E i \in 1..Len(honoCalls[m[1]]) :
       /\ honoCalls[m[1]][i].fn = "route"
       /\ honoCalls[m[1]][i].child = child
       /\ honoCalls[m[1]][i].path = m[2]}

\* C6 as stated: an endpoint registered on a child after the child was
\* mounted on a parent is in the document of the parent at
\* mergePaths(prefix, its path).
C6_LaterRegistrationsPropagate ==
  [][RegistrationStep
       => \A m \in {x \in MountsOf(call'.app) : x[1] # call'.app} :
            \A k \in (Len(endpoints[call'.app]) + 1)..Len(endpoints'[call'.app]) :
              LET d == heap'[endpoints'[call'.app][k]]
              IN  <<mergePaths(<<m[2], d.path>>), d.method>>
                    \in DOMAIN DocumentOf(heap', endpoints', m[1])]_vars

\* C6 amended: a mount takes the child's endpoints as they are at the call:
\* each is then in the parent's document at convert(merge(prefix, path));
\* a registration changes the list and the document of no other application,
\* so an endpoint registered on the child later is not in the parent's.
C6_MountIsASnapshot ==
  [][/\ MountStep
          => \A k \in 1..Len(endpoints[call'.child]) :
               LET id == endpoints[call'.child][k]
               IN  /\ \E j \in 1..Len(endpoints'[call'.app]) :
                        endpoints'[call'.app][j] = id
                   /\ <<MountedPath(call'.path, heap[id].path,
                                    Occurrences(id, endpoints[call'.child])),
                        heap[id].method>>
                        \in DOMAIN DocumentOf(heap', endpoints', call'.app)
     /\ RegistrationStep
          => \A p \in Apps \ {call'.app} :
               /\ endpoints'[p] = endpoints[p]
               /\ DocumentOf(heap', endpoints', p)
                    = DocumentOf(heap, endpoints, p)]_vars

\* C6's case: A mounted B, then a route was registered on B; B documents it
\* and A documents nothing
C6_Witness ==
  /\ call.fn \in RegistrationFns /\ call.app = "B"
  /\ \E i \in 1..Len(honoCalls["A"]) :
       honoCalls["A"][i].fn = "route" /\ honoCalls["A"][i].child = "B"
  /\ DOMAIN DocumentOf(heap, endpoints, "B") # {}
  /\ DOMAIN DocumentOf(heap, endpoints, "A") = {}

\* no segment of path is a ':name' parameter: a ':' followed by a name
NoColonSegment(path) ==
  \A k \in 1..Len(SplitSlash(path)) :
    LET seg == SplitSlash(path)[k]
    IN  ~(Len(seg) >= 2 /\ seg[1] = ":")

\* C11: after any registrations (with or without an override path) and
\* mounts (with or without ':name' in the prefix), every path key of every
\* application's document is free of ':name' segments.
C11_DocumentKeysInBraceSyntax ==
  \A a \in Apps :
    \A key \in DOMAIN DocumentOf(heap, endpoints, a) : NoColonSegment(key[1])

\* C11's case: B registered /:a, A mounted B at /:v, and A documents the
\* route at /{v}/{a}
C11_Witness ==
  /\ call.fn = "route" /\ call.app = "A" /\ call.child = "B"
  /\ call.path = <<"/", ":", "v">>
  /\ \E m \in {"get", "post"} :
       <<<<"/", "{", "v", "}", "/", "{", "a", "}">>, m>>
         \in DOMAIN DocumentOf(heap, endpoints, "A")

(***************************************************************************)
(* Properties of the path functions, checked under PathSpec.               *)
(***************************************************************************)
\* the segments of a merged path: what lies between its separators
SegmentsOf(path) == IF Len(path) <= 1 THEN <<>> ELSE SplitSlash(Tail(path))

\* deepest nesting of braces in a path
RECURSIVE DepthFrom(_, _, _, _)
DepthFrom(s, i, cur, best) ==
  IF i > Len(s) THEN best
  ELSE IF s[i] = "{"
       THEN DepthFrom(s, i + 1, cur + 1, IF cur + 1 > best THEN cur + 1 ELSE best)
  ELSE IF s[i] = "}"
       THEN DepthFrom(s, i + 1, IF cur > 0 THEN cur - 1 ELSE 0, best)
  ELSE DepthFrom(s, i + 1, cur, best)

BraceDepth(s) == DepthFrom(s, 1, 0, 0)

\* the braces of s form literal groups: each '{' is closed by a '}' in the
\* same segment before another '{', no '}' stands alone, and no ':' lies
\* inside a group
RECURSIVE LiteralFrom(_, _, _)
LiteralFrom(s, i, open) ==
  IF i > Len(s) THEN ~open
  ELSE IF s[i] = "{" THEN ~open /\ LiteralFrom(s, i + 1, TRUE)
  ELSE IF s[i] = "}" THEN open /\ LiteralFrom(s, i + 1, FALSE)
  ELSE IF s[i] \in {":", "/"} THEN ~open /\ LiteralFrom(s, i + 1, FALSE)
  ELSE LiteralFrom(s, i + 1, open)

LiteralGroupsOnly(s) == LiteralFrom(s, 1, FALSE)

CountOf(c, s) == Cardinality({i \in 1..Len(s) : s[i] = c})

\* at most one ':' in every segment of s
OneColonPerSegment(s) ==
  \A k \in 1..Len(SplitSlash(s)) : CountOf(":", SplitSlash(s)[k]) <= 1

\* ':name' replaced by '{name}', a name being the letters after the colon
RECURSIVE NameEnd(_, _)
NameEnd(s, i) ==
  IF i > Len(s) \/ s[i] \in {"/", ":", "{", "}"} THEN i ELSE NameEnd(s, i + 1)

RECURSIVE TokensToBraces(_, _)
TokensToBraces(s, i) ==
  IF i > Len(s) THEN <<>>
  ELSE IF s[i] = ":" /\ NameEnd(s, i + 1) > i + 1
       THEN <<"{">> \o SubSeq(s, i + 1, NameEnd(s, i + 1) - 1) \o <<"}">>
            \o TokensToBraces(s, NameEnd(s, i + 1))
       ELSE <<s[i]>> \o TokensToBraces(s, i + 1)

\* C7: mergePaths gives the same path in both groupings of three fragments,
\* and so a route mounted at pb and then at pa is documented at the path it
\* gets when mounted once at mergePaths(pa, pb).
C7_MergeAssociativeMountsCompose ==
  /\ op = "assoc" => out[1] = out[2]
  /\ op = "mount2" => out[1] = out[2]

\* the first half of C7 alone: the two groupings of mergePaths agree
MergeGroupingsAgree == op = "assoc" => out[1] = out[2]

\* C8: a merged path is in normal form: one leading '/', no empty segment,
\* no trailing '/', its segments are the trimmed non-blank segments of the
\* two inputs in order, and it is "/" when the inputs hold no segment.
C8_MergeNormalForm ==
  op = "merge" =>
    LET m == out[1]
        segs == SegmentsOf(m)
        given == KeepTrimmed(SplitSlash(pa)) \o KeepTrimmed(SplitSlash(pb))
    IN  /\ Len(m) >= 1 /\ m[1] = "/"
        /\ Len(m) > 1 => m[2] # "/" /\ m[Len(m)] # "/"
        /\ \A k \in 1..Len(segs) : segs[k] # <<>> /\ Trim(segs[k]) = segs[k]
        /\ segs = given
        /\ given = <<>> => m = <<"/">>

\* C8's case: "/a/" and "/a" merge to "/a/a", a fragment of blanks is dropped
C8_Witness ==
  /\ op = "merge"
  /\ pa = <<"/", "a", "/">> /\ pb = <<"/", "a">>
  /\ out[1] = <<"/", "a", "/", "a">>

\* C9: converting a converted path changes nothing, and "/:a" converts to
\* "/{a}".
C9_ConvertIdempotent ==
  op = "convert" =>
    /\ out[2] = out[1]
    /\ pa = <<"/", ":", "a">> => out[1] = <<"/", "{", "a", "}">>

\* C10: conversion replaces every ':name' by '{name}' and changes nothing
\* else: a path without ':' is returned as it is, a path without braces and
\* with one ':' per segment has exactly its tokens replaced, and a path whose
\* braces are literal groups gets no brace around or inside a group.
C10_ConvertKeepsLiteralBraces ==
  op = "convert" =>
    /\ CountOf(":", pa) = 0 => out[1] = pa
    /\ (CountOf("{", pa) = 0 /\ CountOf("}", pa) = 0 /\ OneColonPerSegment(pa))
          => out[1] = TokensToBraces(pa, 1)
    /\ LiteralGroupsOnly(pa) => BraceDepth(out[1]) <= 1

\* C27 as stated: whatever the mount prefix and the child path, the
\* mergePaths of src/src/Hono.ts returns a path that begins with one '/' and
\* not with '//'.
C27_HonoTsMergeHasOneLeadingSlash ==
  op = "mergeHonoTs" =>
    /\ out[1][1] = "/"
    /\ Len(out[1]) >= 2 => out[1][2] # "/"

(***************************************************************************)
(* Properties of the schema translator, checked under SchemaSpec: input is *)
(* the node and, once op = "translated", output is what the call gave.     *)
(***************************************************************************)
Translated == op = "translated"

\* the node has no definition, or a tag no branch of the translator names
Unrecognized(node) ==
  /\ ~Has(node, "isUndefined")
  /\ \/ node.via = "none"
     \/ TagOf(node) \in {"", "promise"}

\* C12: the translator returns a schema for every node and never throws,
\* a node with a missing child included, and a node with no definition or
\* an unrecognized tag gives exactly {type: "object", example: {}}.
C12_TranslatorIsTotal ==
  Translated =>
    /\ ~IsThrown(output)
    /\ Unrecognized(input) => output = Fallback

KeysOf(pairs) == [i \in 1..Len(pairs) |-> pairs[i][1]]
RangeOf(q) == {q[i] : i \in 1..Len(q)}

\* the shape keys whose own node is neither optional nor default
RequiredKeys(shape) ==
  {shape[i][1] : i \in {j \in 1..Len(shape) :
                          TagOf(shape[j][2]) \notin {"optional", "default"}}}

\* properties and required of one translated object node
ObjectAgrees(shape, schema) ==
  /\ schema.type = "object"
  /\ KeysOf(schema.properties) = KeysOf(shape)
  /\ Has(schema, "required") <=> RequiredKeys(shape) # {}
  /\ Has(schema, "required") =>
       /\ Len(schema.required) > 0
       /\ RangeOf(schema.required) = RequiredKeys(shape)
       /\ Len(schema.required) = Cardinality(RequiredKeys(shape))
       /\ RangeOf(schema.required) \subseteq RangeOf(KeysOf(schema.properties))

\* every object node inside node, under object fields, optional, nullable,
\* default and array, agrees with its part of the translated schema
RECURSIVE ObjectsAgree(_, _)
ObjectsAgree(node, schema) ==
  LET tag == TagOf(node)
      shape == ShapeOf(node.def)
  IN  CASE tag = "object" ->
             /\ ObjectAgrees(shape, schema)
             /\ \A i \in 1..Len(shape) :
                  ObjectsAgree(shape[i][2], schema.properties[i][2])
        [] tag \in {"optional", "nullable", "default"} ->
             ObjectsAgree(node.def.innerType, schema)
        [] tag = "array" /\ IsTruthy(Child(node.def, "element")) ->
             ObjectsAgree(node.def.element, schema.items)
        [] OTHER -> TRUE

\* C13: for every object node, at every nesting depth, properties has
\* exactly the shape's keys and required is exactly the keys whose own tag
\* is neither optional nor default; required is left out when there is no
\* such key, so a required that is present is non-empty and within the
\* keys of properties.
C13_ObjectPropertiesAndRequired ==
  (Translated /\ ~IsThrown(output)) => ObjectsAgree(input, output)

\* an object holding an optional object with a default-tagged field and an
\* object with a nullable-tagged field
C13_Witness ==
  /\ Translated /\ TagOf(input) = "object" /\ Has(input.def, "shape")
  /\ Len(input.def.shape) = 2
  /\ TagOf(input.def.shape[1][2]) = "optional"
  /\ TagOf(input.def.shape[1][2].def.innerType) = "object"
  /\ Len(input.def.shape[1][2].def.innerType.def.shape) = 1
  /\ TagOf(input.def.shape[1][2].def.innerType.def.shape[1][2]) = "default"
  /\ TagOf(input.def.shape[2][2]) = "object"
  /\ Len(input.def.shape[2][2].def.shape) = 1
  /\ TagOf(input.def.shape[2][2].def.shape[1][2]) = "nullable"
  /\ output.required = <<"b">>
  /\ KeysOf(output.properties) = <<"a", "b">>
  /\ KeysOf(output.properties[1][2].properties) = <<"a">>
  /\ ~Has(output.properties[1][2], "required")
  /\ output.properties[2][2].required = <<"a">>

\* the check marks the number as an integer, in one of the encodings
IntegerMarking(check) ==
  /\ IsObject(check)
  /\ \/ Has(check, "isInt") /\ check.isInt
     \/ Has(check, "format") /\ check.format = "safeint"
     \/ /\ Has(check, "def") /\ check.def.defined
        /\ (check.def.format = "safeint" \/ check.def.check = "int")
     \/ Has(check, "kind") /\ check.kind = "int"

\* C16: a number node with an integer-marking check, in any encoding and
\* at any position of the check list, translates to type "integer" with
\* example 123; a number node with no such check translates to type
\* "number" with example 123.45.
C16_IntegerMarkingPromotes ==
  (Translated /\ TagOf(input) = "number") =>
    IF \E i \in 1..Len(ChecksOf(input.def)) :
         IntegerMarking(ChecksOf(input.def)[i])
    THEN output.type = "integer" /\ output.example = "123"
    ELSE output.type = "number" /\ output.example = "123.45"

\* the nested-def marking in first position, followed by a max check
C16_Witness ==
  /\ Translated /\ TagOf(input) = "number"
  /\ Len(ChecksOf(input.def)) = 2
  /\ input.def.checks[1] = ("def" :> CheckDef("", "int"))
  /\ Has(input.def.checks[2], "kind") /\ input.def.checks[2].kind = "max"
  /\ output.type = "integer" /\ output.example = "123"
  /\ Has(output, "maximum")

\* the checks of the list that set field f, each taken on its own
Setters(checks, f, Apply(_, _)) ==
  {i \in 1..Len(checks) : Has(Apply(<<>>, checks[i]), f)}

\* field f of schema holds what the last check that sets f gives it
LastWriteWins(schema, checks, f, Apply(_, _)) ==
  LET setters == Setters(checks, f, Apply)
      last == CHOOSE i \in setters : \A j \in setters : j <= i
  IN  setters # {} =>
        (Has(schema, f) /\ schema[f] = Apply(<<>>, checks[last])[f])

StringFieldsChecked == {"format", "example", "minLength", "maxLength", "pattern"}
NumberFieldsChecked ==
  {"type", "example", "minimum", "maximum", "exclusiveMinimum",
   "exclusiveMaximum", "multipleOf"}

StringLastWriteWins ==
  \A f \in StringFieldsChecked :
    LastWriteWins(output, ChecksOf(input.def), f, StringCheck)

NumberLastWriteWins ==
  \A f \in NumberFieldsChecked :
    LastWriteWins(output, ChecksOf(input.def), f, NumberCheck)

\* C18: the checks of a string or number node are applied in declared
\* order and each output field holds the value of the last check that sets
\* it, in whichever encoding; nothing applied outside the check list
\* overrides it.
C18_LastWriteWins ==
  Translated =>
    /\ TagOf(input) = "string" => StringLastWriteWins
    /\ TagOf(input) = "number" => NumberLastWriteWins

\* the string node carries _zod.bag.format "email"
HasEmailBag(node) == Has(node, "bagFormat") /\ node.bagFormat = "email"

\* what holds: last-write-wins for number nodes, and for string nodes
\* without the email bag
LastWriteWinsOutsideBag ==
  Translated =>
    /\ (TagOf(input) = "string" /\ ~HasEmailBag(input)) => StringLastWriteWins
    /\ TagOf(input) = "number" => NumberLastWriteWins

\* check is a min or max check (kind) carrying a number
IsBound(check, kind) ==
  /\ IsObject(check) /\ Has(check, "kind") /\ check.kind = kind
  /\ Has(check, "value") /\ check.value.isNumber

\* the bound states that it is exclusive: inclusive is there and is false
ExplicitlyExclusive(check, kind) ==
  IsBound(check, kind) /\ Has(check, "inclusive") /\ ~check.inclusive

\* the bound is not stated to be inclusive
NotStatedInclusive(check, kind) ==
  IsBound(check, kind) /\ ~(Has(check, "inclusive") /\ check.inclusive)

BoundAgrees(schema, checks, kind, field, exclusiveField, Exclusive(_, _)) ==
  /\ (Len(checks) > 0 /\ IsBound(checks[Len(checks)], kind)) =>
       (Has(schema, field) /\ schema[field] = checks[Len(checks)].value)
  /\ Has(schema, exclusiveField) <=>
       \E i \in 1..Len(checks) : Exclusive(checks[i], kind)
  /\ Has(schema, exclusiveField) => schema[exclusiveField]

\* C19: for number and integer nodes a min (max) check sets minimum
\* (maximum) to its value, and exclusiveMinimum (exclusiveMaximum) is set,
\* to true, only when a min (max) check is explicitly exclusive; a check
\* that is inclusive or does not state inclusiveness leaves it unset.
C19_ExclusiveOnlyWhenExplicit ==
  (Translated /\ TagOf(input) \in {"number", "integer"}) =>
    /\ BoundAgrees(output, ChecksOf(input.def), "min", "minimum",
                   "exclusiveMinimum", ExplicitlyExclusive)
    /\ BoundAgrees(output, ChecksOf(input.def), "max", "maximum",
                   "exclusiveMaximum", ExplicitlyExclusive)

\* what holds: the exclusive flag is set by every min (max) check that is
\* not stated to be inclusive
ExclusiveUnlessInclusive ==
  (Translated /\ TagOf(input) \in {"number", "integer"}) =>
    /\ BoundAgrees(output, ChecksOf(input.def), "min", "minimum",
                   "exclusiveMinimum", NotStatedInclusive)
    /\ BoundAgrees(output, ChecksOf(input.def), "max", "maximum",
                   "exclusiveMaximum", NotStatedInclusive)

\* the bound a check carries for field p (minValue or maxValue) or for the
\* kind k (min or max), in either encoding; none when it carries no number
CarriesBound(check, p, k) ==
  /\ IsObject(check)
  /\ \/ Has(check, p) /\ check[p].isNumber
     \/ IsBound(check, k)
BoundOf(check, p, k) == IF IsBound(check, k) THEN check.value ELSE check[p]

\* the one check of the list that carries the bound, when there is one
OnlyBound(checks, p, k) ==
  LET carriers == {i \in 1..Len(checks) : CarriesBound(checks[i], p, k)}
  IN  IF Cardinality(carriers) = 1
      THEN <<checks[CHOOSE i \in carriers : TRUE]>>
      ELSE <<>>

\* a sentinel bound leaves the field unset, any other bound is emitted
SentinelUnset(schema, checks, p, k, field, sentinel) ==
  LET only == OnlyBound(checks, p, k)
  IN  only # <<>> =>
        IF BoundOf(only[1], p, k) = sentinel THEN ~Has(schema, field)
        ELSE Has(schema, field) /\ schema[field] = BoundOf(only[1], p, k)

\* C20: for number nodes a lower bound equal to -9007199254740991 or an
\* upper bound equal to 9007199254740991 is treated as unset, in whichever
\* check encoding it arrives: the schema carries no minimum (maximum) for
\* it; every other numeric bound is emitted unchanged.
C20_SentinelBoundsUnset ==
  (Translated /\ TagOf(input) = "number") =>
    /\ SentinelUnset(output, ChecksOf(input.def), "minValue", "min",
                     "minimum", MinSafe)
    /\ SentinelUnset(output, ChecksOf(input.def), "maxValue", "max",
                     "maximum", MaxSafe)

\* what holds: a min or max check is emitted whatever its value, and a
\* minValue (maxValue) is emitted when it is above -9007199254740991
\* (below 9007199254740991)
BoundAsCoded(schema, checks, p, k, field, Inside(_)) ==
  LET only == OnlyBound(checks, p, k)
  IN  only # <<>> =>
        IF IsBound(only[1], k) \/ Inside(only[1][p])
        THEN Has(schema, field) /\ schema[field] = BoundOf(only[1], p, k)
        ELSE ~Has(schema, field)

AboveMinSafeOnly(v) == Less(MinSafe, v)
BelowMaxSafeOnly(v) == Less(v, MaxSafe)

SentinelUnsetInValueEncoding ==
  (Translated /\ TagOf(input) = "number") =>
    /\ BoundAsCoded(output, ChecksOf(input.def), "minValue", "min",
                    "minimum", AboveMinSafeOnly)
    /\ BoundAsCoded(output, ChecksOf(input.def), "maxValue", "max",
                    "maximum", BelowMaxSafeOnly)

\* the values the length sources of a string node give, in the order they
\* are applied: the direct property p of the schema, then for each check
\* its property p and then its value when its kind is k
RECURSIVE CheckLengths(_, _, _)
CheckLengths(checks, p, k) ==
  IF checks = <<>> THEN <<>>
  ELSE LET c == Head(checks)
       IN  (IF IsObject(c) /\ Has(c, p) /\ c[p].isNumber THEN <<c[p]>> ELSE <<>>)
             \o (IF IsBound(c, k) THEN <<c.value>> ELSE <<>>)
             \o CheckLengths(Tail(checks), p, k)

LengthSources(node, p, k) ==
  (IF Has(node, p) /\ node[p].isNumber THEN <<node[p]>> ELSE <<>>)
    \o CheckLengths(ChecksOf(node.def), p, k)

LengthAgrees(schema, sources, field) ==
  IF sources = <<>> THEN ~Has(schema, field)
  ELSE Has(schema, field) /\ schema[field] = sources[Len(sources)]

\* C21: a string node with a min-length check of value lo and a max-length
\* check of value hi, in any encoding and for lo = 0 too, translates to type
\* "string" with minLength = lo and maxLength = hi (the last check of each
\* kind when there are several); with no length check it has neither field.
C21_StringLengths ==
  (Translated /\ TagOf(input) = "string") =>
    /\ output.type = "string"
    /\ LengthAgrees(output, LengthSources(input, "minLength", "min"), "minLength")
    /\ LengthAgrees(output, LengthSources(input, "maxLength", "max"), "maxLength")

\* a min check of value 0 in the kind encoding and a max-length of 9 in the
\* property encoding
C21_Witness ==
  /\ Translated /\ TagOf(input) = "string"
  /\ ~Has(input, "minLength") /\ ~Has(input, "maxLength")
  /\ Len(ChecksOf(input.def)) = 2
  /\ IsBound(input.def.checks[1], "min") /\ input.def.checks[1].value = N(0)
  /\ input.def.checks[2] = ("maxLength" :> N(9))
  /\ output.type = "string"
  /\ output.minLength = N(0) /\ output.maxLength = N(9)

(***************************************************************************)
(* Properties of the descriptor a registration builds, checked under Spec. *)
(***************************************************************************)
\* a validator that lacks its location or its schema, or a parameter
\* validator whose schema is not an array of parameter objects
MalformedValidator(h) ==
  /\ h.kind = "validator"
  /\ \/ h.from = ""
     \/ h.schema.form = "undefined"
     \/ /\ h.from \in ParameterSources
        /\ ~(/\ h.schema.form = "array"
             /\ \A k \in 1..Len(h.schema.items) : ~h.schema.items[k].isNull)

WithoutMalformed(hs) == SelectSeq(hs, LAMBDA h : ~MalformedValidator(h))

\* the endpoint the last get or post call pushed
LastPushed == heap[endpoints[call.app][Len(endpoints[call.app])]]

\* the last call was a get or post of a route that is not hidden
DocumentedCall ==
  /\ call.fn \in {"get", "post"}
  /\ ~EndpointDocsOf(call.handlers).hide

\* C23 as stated: the descriptor of a route is the descriptor the same route
\* has without its malformed validators; a malformed validator adds neither
\* a parameter nor a request body.
C23_MalformedValidatorsContributeNothing ==
  DocumentedCall =>
    /\ endpoints[call.app] # <<>>
    /\ LastPushed
         = loadEndpointDocs(call.path, call.method,
                            WithoutMalformed(call.handlers)).endpoint

\* C24 as stated: when the documentation descriptor supplies no summary, or
\* there is none, the summary of the endpoint is its own method in upper
\* case, a space, and its own path: the method and path it is documented
\* under.
C24_DefaultSummaryNamesEndpoint ==
  (DocumentedCall /\ EndpointDocsOf(call.handlers).summary = <<>>) =>
    /\ endpoints[call.app] # <<>>
    /\ LastPushed.summary
         = <<ToUpperCase(LastPushed.method), " ">> \o LastPushed.path

\* the media types of a supplied response entry that carry a schema
WithSchema(response) ==
  IF response.hasContent
  THEN {mt \in DOMAIN response.content : response.content[mt].hasSchema}
  ELSE {}

\* the recorded entry r is the supplied entry under the same status: its
\* description when it has one, and exactly its media types that carry a
\* schema, each with the schema as supplied
RecordedAsSupplied(r, response) ==
  /\ response.description # "" => r.description = <<response.description>>
  /\ r.hasContent = response.hasContent
  /\ DOMAIN r.content = WithSchema(response)
  /\ \A mt \in WithSchema(response) :
        r.content[mt] = response.content[mt].schema

\* C25: for a supplied responses mapping the endpoint records every entry
\* that is not null under its status code, with its description and with
\* the schemas of its media types as supplied; a null entry and a media type
\* without schema are left out, and nothing else is: the other status codes
\* and the endpoint itself are kept.
C25_ResponsesPassThrough ==
  (DocumentedCall /\ EndpointDocsOf(call.handlers).hasResponses) =>
    LET supplied == EndpointDocsOf(call.handlers).responses
    IN  /\ endpoints[call.app] # <<>>
        /\ LastPushed.hasResponses
        /\ DOMAIN LastPushed.responses
             = {st \in DOMAIN supplied : ~supplied[st].isNull}
        /\ \A st \in DOMAIN LastPushed.responses :
              RecordedAsSupplied(LastPushed.responses[st], supplied[st])

\* C25's case: of 200 (a media type with and one without schema), 404 (null)
\* and 500 (neither description nor content), 200 is recorded with its one
\* schema and 500 is kept
C25_Witness ==
  /\ call.fn = "get" /\ call.handlers = ResponseHandlers
  /\ endpoints[call.app] # <<>>
  /\ DOMAIN LastPushed.responses = {"200", "500"}
  /\ LastPushed.responses["200"].description = <<"ok">>
  /\ DOMAIN LastPushed.responses["200"].content = {"application/json"}
  /\ LastPushed.responses["200"].content["application/json"] = "Item"

\* the identities a step appended to the list of application a
Appended(a) ==
  SubSeq(endpoints'[a], Len(endpoints[a]) + 1, Len(endpoints'[a]))

\* what the call of the step appends to the list of the application it is
\* made on: the number of new endpoints and, for all(), their methods
AppendedByCall ==
  LET new == Appended(call'.app)
      hidden == EndpointDocsOf(call'.handlers).hide
  IN  CASE call'.fn \in RegistrationFns \ {"all"} ->
             Len(new) = IF hidden THEN 0 ELSE 1
        [] call'.fn = "all" ->
             IF hidden THEN new = <<>>
             ELSE /\ Len(new) = 6
                  /\ EndpointDocsOf(call'.handlers).method = ""
                       => [i \in 1..6 |-> heap'[new[i]].method] = AllMethods
                  /\ \A i \in 1..6 : heap'[new[i]].path = heap'[new[1]].path
        [] call'.fn = "route" ->
             new = IF call'.child \in Apps THEN endpoints[call'.child] ELSE <<>>
        [] OTHER -> new = <<>>

\* C29: every call leaves each application's list as a prefix of what it
\* becomes, changes the list of no application but the one it is made on,
\* and appends to that one: one new endpoint for a get/post/put/delete/
\* patch/options/on that is not hidden, six (post, get, put, delete, patch,
\* options, of one path) for all(), none for a hidden registration, use()
\* and getOpenAPI(), and the child's list as it is for route().
C29_CollectionOnlyGrows ==
  [][nOps' = nOps + 1 =>
       /\ \A a \in Apps : IsPrefixOf(endpoints[a], endpoints'[a])
       /\ \A a \in Apps \ {call'.app} : endpoints'[a] = endpoints[a]
       /\ \A i \in 1..Len(Appended(call'.app)) :
             call'.fn # "route" => Appended(call'.app)[i] > Len(heap)
       /\ AppendedByCall]_vars

\* C29's case: all() documented six endpoints on an application, and a
\* route() call then appended them, in order, to the list of the other
C29_Witness ==
  /\ call.fn = "route" /\ call.child \in Apps /\ call.child # call.app
  /\ Len(endpoints[call.child]) = 6
  /\ endpoints[call.app] = endpoints[call.child]
  /\ [i \in 1..6 |-> heap[endpoints[call.app][i]].method] = AllMethods

\* the positions of the documentation descriptors among the handlers
DocPositions(hs) == {i \in 1..Len(hs) : hs[i].kind = "openapi"}

\* the handlers without the documentation descriptors that follow the first
FirstDocOnly(hs) ==
  LET keep == {i \in 1..Len(hs) :
                 hs[i].kind = "openapi" => \A j \in DocPositions(hs) : i <= j}
      nth[k \in 0..Len(hs)] ==
        IF k = 0 THEN <<>>
        ELSE IF k \in keep THEN Append(nth[k - 1], hs[k]) ELSE nth[k - 1]
  IN  nth[Len(hs)]

\* C30: a get or post whose handlers carry several documentation
\* descriptors documents the route as the same call does with the first of
\* them alone: the same endpoint is added, or none when the first hides the
\* route, whatever the later ones say.
C30_FirstDocumentationDescriptorWins ==
  [][(RegistrationStep /\ call'.fn \in {"get", "post"}
        /\ Cardinality(DocPositions(call'.handlers)) > 1)
       => heap' = heap \o PushedBeforeThrow(
                           LoadResults(call'.path, <<call'.method>>,
                                       FirstDocOnly(call'.handlers)), 1)]_vars

\* C30's case: a route whose second documentation descriptor hides it is
\* documented with the summary, description and tags of the first
C30_Witness ==
  /\ call.fn = "get" /\ call.handlers = DocumentedThenHidden
  /\ endpoints[call.app] # <<>>
  /\ LastPushed.summary = <<"List">>
  /\ LastPushed.description = "desc"
  /\ LastPushed.tags = <<"t">>

(***************************************************************************)
(* Properties of runs that begin after a first registration, checked       *)
(* under RegisteredSpec.                                                   *)
(***************************************************************************)
\* C28 as stated: a mount applies its own prefix to the paths the child
\* registered and touches nothing an earlier mount put on a parent: every
\* descriptor that an application other than the child held before the call
\* is what it was, and so is that application's document.
C28_MountLeavesEarlierMounts ==
  [][(MountStep /\ call'.child # call'.app) =>
       \A a \in Apps \ {call'.child} :
         /\ \A i \in 1..Len(endpoints[a]) :
               heap'[endpoints[a][i]] = heap[endpoints[a][i]]
         /\ a # call'.app
              => DocumentOf(heap', endpoints', a) = DocumentOf(heap, endpoints, a)]_vars

=============================================================================
